---- MODULE Spec2Model ----
(***************************************************************************)
(* Model of hyperspy/learn/mva.py: the MVA mix-in of a signal (its data    *)
(* buffer, its folding state, the backup taken for undo_treatments and the *)
(* persistent learning_results record) under decomposition(),              *)
(* undo_treatments(), cluster_analysis(), estimate_number_of_clusters(),   *)
(* blind_source_separation() and reverse_bss_component().  Three families  *)
(* of runs are followed: Spec (decompositions, then one analysis),         *)
(* ClusterSpec (clustering of a fresh signal of six samples) and BssSpec   *)
(* (separation of a signal decomposed in three components).                *)
(*                                                                         *)
(* Conventions.  An optional value is a sequence: None is <<>> and a value *)
(* x is <<x>>.  A data value is a sequence: <<v>> is the number v, and     *)
(* <<x, r, c>> is x / (sqrt(sum of r) * sqrt(sum of c)), the quotient that *)
(* normalize_poissonian_noise stores, kept symbolic.  The numerical        *)
(* kernels (svd_pca, orpca, scikit-learn estimators, k-means) are not part *)
(* of the file: a matrix they return is kept as its shape and, per row,    *)
(* the origin of the row ("alg": computed by the kernel, "proj": filled by *)
(* reprojection, "nan": placeholder of an excluded position).              *)
(***************************************************************************)
EXTENDS Integers, Sequences, FiniteSets, TLC

VARIABLES data, shape, folding, unfolded4decomposition, unfolded4clustering,
          data_before_treatments, root_aG, root_bH, learning_results, last,
          earlier, analysed, bss_mask, lazy

vars == <<data, shape, folding, unfolded4decomposition, unfolded4clustering,
          data_before_treatments, root_aG, root_bH, learning_results, last,
          earlier, analysed, bss_mask, lazy>>

\* ------------------------------------------------------------------ bounds

\* A run is: up to MaxEarlierCalls decompositions with plain arguments, which
\* leave their traces on the signal, then one analysis call with any
\* arguments, then undo_treatments() any number of times.
MaxEarlierCalls == 1

\* Largest output_dimension a caller asks for; a kernel returns up to one
\* column more than that.
MaxOutputDimension == 1

\* ------------------------------------------------------- optional values

None == <<>>

Some(x) == <<x>>

\* --------------------------------------------------------------- dataset

\* The datasets of the model: four navigation positions, as a 2x2 map or as
\* a line of 4, and a spectrum of three channels.
Shapes == {<<2, 2, 3>>, <<4, 3>>}

RECURSIVE Product(_)
Product(s) == IF s = <<>> THEN 1 ELSE Head(s) * Product(Tail(s))

\* The navigation shape of a dataset of native shape s (one signal axis).
NavigationShapeOf(s) == SubSeq(s, 1, Len(s) - 1)

SignalShapeOf(s) == SubSeq(s, Len(s), Len(s))

Lift(rows) == [i \in 1..Len(rows) |-> [j \in 1..Len(rows[i]) |-> <<rows[i][j]>>]]

\* Counts without a negative value (one all-zero spectrum, for 0/0), and
\* counts with a negative value in the last spectrum.
InitialData ==
    { Lift(<< <<1, 2, 0>>, <<3, 0, 1>>, <<0, 0, 0>>, <<2, 1, 4>> >>),
      Lift(<< <<1, 2, 0>>, <<3, 0, 1>>, <<0, 0, 0>>, <<2, -1, 4>> >>) }

\* ----------------------------------------------------------------- masks

RECURSIVE Concat(_)
Concat(ss) == IF ss = <<>> THEN <<>> ELSE Head(ss) \o Concat(Tail(ss))

\* numpy's ravel of an array of shape shp (C order).
Ravel(m, shp) == IF Len(shp) = 1 THEN m ELSE Concat(m)

\* numpy's reshape of a flat array to shape shp.
Reshape(v, shp) ==
    IF Len(shp) = 1 THEN v
    ELSE [i \in 1..shp[1] |-> [j \in 1..shp[2] |-> v[(i - 1) * shp[2] + j]]]

\* numpy's ~ on a boolean vector.
Invert(v) == [i \in 1..Len(v) |-> ~v[i]]

\* The flat masks a caller passes (True = excluded), before they take the
\* dataset's native shape.
FlatNavigationMasks == {<<FALSE, FALSE, FALSE, TRUE>>}

FlatSignalMasks == {<<FALSE, FALSE, TRUE>>}

NavigationMasks(s) ==
    {None} \cup {Some(Reshape(v, NavigationShapeOf(s))) : v \in FlatNavigationMasks}

SignalMasks(s) ==
    {None} \cup {Some(Reshape(v, SignalShapeOf(s))) : v \in FlatSignalMasks}

\* mask.ravel() when the mask has a ravel method (it is an array).
RavelMask(mask, shp) == IF mask = None THEN None ELSE Some(Ravel(mask[1], shp))

\* The selector the code indexes with: slice(None) for no mask, the
\* inverted mask otherwise; keep[i] says whether position i is selected.
Selector(flatmask, n) ==
    IF flatmask = None
    THEN [slice |-> TRUE, keep |-> [i \in 1..n |-> TRUE]]
    ELSE [slice |-> FALSE, keep |-> Invert(flatmask[1])]

\* The selected positions, in order.
Kept(sel) == SelectSeq([i \in 1..Len(sel.keep) |-> i], LAMBDA i : sel.keep[i])

\* ------------------------------------------------- Poisson normalization

IsZero(x) == Len(x) = 1 /\ x[1] = 0

RECURSIVE IsNegative(_)
IsNegative(x) == IF Len(x) = 1 THEN x[1] < 0 ELSE IsNegative(x[1])

\* x / (sqrt(sum r) * sqrt(sum c)), with numpy's nan_to_num: 0/0 is 0.
\* (A variant that loses the value, to show what depends on Quotient.)
MutQuotient(x, r, c) == <<0>>

Quotient(x, r, c) == IF IsZero(x) THEN <<0>> ELSE <<x, r, c>>

\* dc[:, signal_mask][navigation_mask, :] is a view of the buffer only when
\* signal_mask is a slice: indexing with a boolean array copies.
WritesThrough(navsel, sigsel) == sigsel.slice

\* normalize_poissonian_noise: the outcome on buffer d with flat masks.
normalize_poissonian_noise(d, navmask, sigmask) ==
    LET navsel == Selector(navmask, Len(d))
        sigsel == Selector(sigmask, Len(d[1]))
        rows == Kept(navsel)
        cols == Kept(sigsel)
        aG == [i \in 1..Len(d) |-> [k \in 1..Len(cols) |-> d[i][cols[k]]]]
        bH == [j \in 1..Len(d[1]) |-> [k \in 1..Len(rows) |-> d[rows[k]][j]]]
        negative == \E k \in 1..Len(rows), l \in 1..Len(cols) :
                        IsNegative(d[rows[k]][cols[l]])
        scaled == [i \in 1..Len(d) |-> [j \in 1..Len(d[1]) |->
                     IF navsel.keep[i] /\ sigsel.keep[j]
                     THEN Quotient(d[i][j], aG[i], bH[j])
                     ELSE d[i][j]]]
    IN  IF negative
        THEN [raised |-> TRUE, data |-> d, root_aG |-> None, root_bH |-> None]
        ELSE [raised |-> FALSE,
              data |-> IF WritesThrough(navsel, sigsel) THEN scaled ELSE d,
              root_aG |-> Some([k \in 1..Len(rows) |-> aG[rows[k]]]),
              root_bH |-> Some([k \in 1..Len(cols) |-> bH[cols[k]]])]

\* ------------------------------------------------------ LearningResults

\* The class attributes of LearningResults: every field starts as None.
\* on_loadings and bss_node are attributes that blind_source_separation
\* adds to the instance: None stands for their absence.
LearningResults ==
    [factors |-> None, loadings |-> None, explained_variance |-> None,
     explained_variance_ratio |-> None, number_significant_components |-> None,
     decomposition_algorithm |-> None, poissonian_noise_normalized |-> None,
     output_dimension |-> None, mean |-> None, centre |-> None,
     cluster_membership |-> None, cluster_labels |-> None,
     cluster_centers |-> None, cluster_algorithm |-> None,
     number_of_clusters |-> None, cluster_metric_data |-> None,
     cluster_metric_index |-> None, cluster_metric |-> None,
     bss_algorithm |-> None, unmixing_matrix |-> None, bss_factors |-> None,
     bss_loadings |-> None, unfolded |-> None, original_shape |-> None,
     navigation_mask |-> None, signal_mask |-> None,
     on_loadings |-> None, bss_node |-> None]

\* self.learning_results.__dict__.update(target.__dict__): the fields the
\* target's instance holds replace those of the record, the others stay.
DictUpdate(lr, target) ==
    [k \in DOMAIN lr |-> IF k \in DOMAIN target THEN target[k] ELSE lr[k]]

\* A matrix of a numerical kernel: the origin of each row and the number of
\* columns.
Matrix(rows, cols) == [rows |-> rows, cols |-> cols]

Rows(n, tag) == [i \in 1..n |-> tag]

Min(a, b) == IF a < b THEN a ELSE b

\* LearningResults.crop_decomposition_dimension(n) on a target record.
crop_decomposition_dimension(t, n) ==
    LET l == t.loadings[1]
        f == t.factors[1]
    IN  [t EXCEPT !.loadings = Some(Matrix(l.rows, Min(l.cols, n))),
                  !.explained_variance =
                      IF t.explained_variance = None THEN None
                      ELSE Some(Min(t.explained_variance[1], n)),
                  !.factors = Some(Matrix(f.rows, Min(f.cols, n)))]

\* ---------------------------------------------------------- fold, unfold

\* Signal.unfold(): a dataset with more than two axes is flattened to
\* (navigation size, signal size) and True is returned; otherwise nothing
\* changes and False is returned.
unfold(shp, fo) ==
    IF Len(shp) > 2
    THEN [changed |-> TRUE,
          shape |-> <<Product(NavigationShapeOf(shp)), Product(SignalShapeOf(shp))>>,
          folding |-> [unfolded |-> TRUE, original_shape |-> Some(shp)]]
    ELSE [changed |-> FALSE, shape |-> shp, folding |-> fo]

\* Signal.fold(): back to the shape recorded when unfolding.
fold(shp, fo) ==
    IF fo.unfolded
    THEN [shape |-> fo.original_shape[1],
          folding |-> [unfolded |-> FALSE, original_shape |-> None]]
    ELSE [shape |-> shp, folding |-> fo]

\* axes_manager._navigation_shape_in_array and _signal_shape_in_array.
navigation_shape_in_array(native) == NavigationShapeOf(native)

signal_shape_in_array(native) == SignalShapeOf(native)

\* ---------------------------------------------------------- decomposition

algorithms_require_dimension == {"mlpca", "rpca", "orpca", "ornmf"}

algorithms_sklearn == {"sklearn_pca", "nmf", "sparse_pca", "mini_batch_sparse_pca"}

\* The named algorithms of the dispatch chain.
algorithms_native == {"svd", "mlpca", "rpca", "orpca", "ornmf"}

\* The algorithms callers pass in the model: a native one that needs no
\* dimension, one that needs it and returns no explained variance, a
\* scikit-learn estimator by name, "estimator" for a fitted-PCA-like object
\* with fit_transform and transform, and "unknown" for a value that is
\* neither a registered name nor such an object.
Algorithms == {"svd", "orpca", "sklearn_pca", "estimator", "unknown"}

Reprojections == {"none", "navigation", "signal", "both"}

\* Where a numerical kernel raises: nowhere, in the decomposition itself, or
\* in the estimator's transform() of the reprojection.
Failures == {"none", "algorithm", "transform"}

\* The default of estimate_elbow_position's max_points.
max_points_default == 20

is_sklearn_like(algorithm) ==
    algorithm \in algorithms_sklearn \/ algorithm = "estimator"

\* With return_info=False: svd_pca, mlpca and rpca_godec give the explained
\* variance, orpca and ornmf do not; a scikit-learn PCA has
\* explained_variance_ and mean_, the other estimators have neither.
HasExplainedVariance(algorithm) ==
    algorithm \in {"svd", "mlpca", "rpca", "sklearn_pca", "estimator"}

\* The up-front checks of decomposition(): "none" or the error raised
\* before anything is touched.
UpFrontError(a) ==
    IF a.algorithm \in algorithms_require_dimension /\ a.output_dimension = 0
    THEN "ValueError" ELSE "none"

\* normalize_poissonian_noise is switched off for mlpca.
EffectiveNormalize(a) == a.normalize_poissonian_noise /\ a.algorithm # "mlpca"

\* target = LearningResults(): an instance that holds no field of its own yet.
EmptyTarget == [k \in {} |-> None]

\* The steps of decomposition() pass a record c along: the arguments (a),
\* the signal (data, shape, folding, backup, root_aG, root_bH), the local
\* variables (u for _unfolded4decomposition, the flat masks and selectors,
\* reproject, factors, loadings, explained_variance, mean, centre), the
\* target, and err, the error raised so far ("none": none).  A step does
\* nothing once an error is raised.

Unfolded(c, un) ==
    [c EXCEPT !.shape = un.shape, !.folding = un.folding, !.u = un.changed]

\* Lines 341-359: the backup, the target, unfold() and the raveled masks.
Begin(d, shp, fo, bk, rA, rB, a) ==
    Unfolded(
      [a |-> a, data |-> d, shape |-> shp, folding |-> fo, u |-> FALSE,
       native |-> IF fo.unfolded THEN fo.original_shape[1] ELSE shp,
       backup |-> IF a.copy THEN Some(d) ELSE bk,
       root_aG |-> rA, root_bH |-> rB, err |-> "none",
       target |-> EmptyTarget, reproject |-> a.reproject,
       navflat |-> RavelMask(a.navigation_mask,
                     NavigationShapeOf(IF fo.unfolded THEN fo.original_shape[1] ELSE shp)),
       sigflat |-> RavelMask(a.signal_mask, SignalShapeOf(shp)),
       navsel |-> Selector(None, 0), sigsel |-> Selector(None, 0),
       factors |-> Matrix(<<>>, 0), loadings |-> Matrix(<<>>, 0),
       explained_variance |-> None, mean |-> None, centre |-> a.centre],
      unfold(shp, fo))

Normalized(c, n) ==
    IF n.raised THEN [c EXCEPT !.err = "ValueError"]
    ELSE [c EXCEPT !.data = n.data, !.root_aG = n.root_aG, !.root_bH = n.root_bH]

\* Lines 361-373: the centre check and the normalization.
PreTreat(c) ==
    IF ~EffectiveNormalize(c.a) THEN c
    ELSE IF c.a.centre # None THEN [c EXCEPT !.err = "ValueError"]
    ELSE Normalized(c, normalize_poissonian_noise(c.data, c.navflat, c.sigflat))

\* Lines 383-398: the masks become selectors.
Select(c) ==
    IF c.err # "none" THEN c
    ELSE [c EXCEPT !.navsel = Selector(c.navflat, Len(c.data)),
                   !.sigsel = Selector(c.sigflat, Len(c.data[1]))]

\* Lines 400-532: the dispatch chain on the selected data; the kernel
\* returns a.m columns.
Dispatch(c) ==
    IF c.err # "none" THEN c
    ELSE IF c.a.algorithm \notin algorithms_native /\ ~is_sklearn_like(c.a.algorithm)
    THEN [c EXCEPT !.err = "ValueError"]
    ELSE IF c.a.fail = "algorithm"
    THEN [c EXCEPT !.err = "KernelError"]
    ELSE [c EXCEPT
            !.factors = Matrix(Rows(Len(Kept(c.sigsel)), "alg"), c.a.m),
            !.loadings = Matrix(Rows(Len(Kept(c.navsel)), "alg"), c.a.m),
            !.explained_variance =
                IF HasExplainedVariance(c.a.algorithm) THEN Some(c.a.m) ELSE None,
            !.mean = IF c.a.algorithm \in {"sklearn_pca", "estimator"}
                        \/ (c.a.algorithm = "svd" /\ c.a.centre # None)
                     THEN Some("mean") ELSE None,
            !.centre = IF c.a.algorithm \in {"sklearn_pca", "estimator"}
                       THEN Some("samples") ELSE c.a.centre]

\* estimate_elbow_position on a curve of n values reads
\* argmax(distance[:min(max_points, n - 1)]): numpy raises ValueError on the
\* empty array of n = 1.
ElbowRange(n) == 0..(Min(max_points_default, n - 1) - 1)

\* Lines 537-554: the ratio, the elbow and the first fields of the target.
StoreResults(c) ==
    IF c.err # "none" THEN c
    ELSE IF c.explained_variance # None /\ ElbowRange(c.explained_variance[1]) = {}
    THEN [c EXCEPT !.err = "ValueError"]
    ELSE [c EXCEPT !.target =
            [factors |-> Some(c.factors),
             loadings |-> Some(c.loadings),
             explained_variance |-> c.explained_variance,
             explained_variance_ratio |-> c.explained_variance,
             number_significant_components |->
                 IF c.explained_variance = None THEN None
                 ELSE Some(c.a.elbow + 1),
             decomposition_algorithm |-> Some(c.a.algorithm),
             poissonian_noise_normalized |-> Some(EffectiveNormalize(c.a)),
             output_dimension |->
                 IF c.a.output_dimension = 0 THEN None
                 ELSE Some(c.a.output_dimension),
             unfolded |-> Some(c.u),
             centre |-> c.centre,
             mean |-> c.mean]]

\* Lines 556-557: the crop to output_dimension.
Crop(t, n) ==
    IF n # 0 /\ t.factors[1].cols # n
    THEN crop_decomposition_dimension(t, n) ELSE t

\* Lines 559-566: the unmixing fields are reset, the original shape kept.
Reset(t, u, fo) ==
    IF u THEN [unmixing_matrix |-> None, bss_algorithm |-> None,
               original_shape |-> fo.original_shape] @@ t
    ELSE [unmixing_matrix |-> None, bss_algorithm |-> None] @@ t

CropAndReset(c) ==
    IF c.err # "none" THEN c
    ELSE [c EXCEPT !.target =
            Reset(Crop(c.target, c.a.output_dimension), c.u, c.folding)]

\* Lines 572-577: the navigation reprojection.
ReprojectNavigation(c) ==
    IF c.err # "none" \/ c.reproject \notin {"navigation", "both"} THEN c
    ELSE IF ~is_sklearn_like(c.a.algorithm)
    THEN [c EXCEPT !.target.loadings =
            Some(Matrix(Rows(Len(c.data), "proj"), c.factors.cols))]
    ELSE IF c.a.fail = "transform" THEN [c EXCEPT !.err = "KernelError"]
    ELSE [c EXCEPT !.target.loadings =
            Some(Matrix(Rows(Len(c.data), "proj"), c.a.m))]

\* Lines 579-594: the signal reprojection, or the change of reproject when
\* the algorithm does not support it.
ReprojectAfterWarning(reproject) == IF reproject = "both" THEN "signal" ELSE "none"

ReprojectSignal(c) ==
    IF c.err # "none" \/ c.reproject \notin {"signal", "both"} THEN c
    ELSE IF ~is_sklearn_like(c.a.algorithm)
    THEN [c EXCEPT !.factors = Matrix(Rows(Len(c.data[1]), "proj"), c.loadings.cols),
                   !.target.factors =
                       Some(Matrix(Rows(Len(c.data[1]), "proj"), c.loadings.cols))]
    ELSE [c EXCEPT !.reproject = ReprojectAfterWarning(c.reproject)]

\* numpy's rule for x[:] *= y and x[sel, :] = y along the first axis: y has
\* as many rows as the destination, or one row.
Broadcasts(rows, dest) == rows = dest \/ rows = 1

\* Lines 596-599: the results are rescaled by the stored root sums (the
\* values are the kernel's: only the failure shows in the model).
Rescale(c) ==
    IF c.err # "none" \/ ~EffectiveNormalize(c.a) THEN c
    ELSE IF ~Broadcasts(Len(c.root_bH[1]), Len(c.target.factors[1].rows))
    THEN [c EXCEPT !.err = "ValueError"]
    ELSE IF ~Broadcasts(Len(c.root_aG[1]), Len(c.target.loadings[1].rows))
    THEN [c EXCEPT !.err = "ValueError"]
    ELSE c

Rank(keep, i) == Cardinality({j \in 1..i : keep[j]})

\* zeros((n, k)); out[sel, :] = m; out[~sel, :] = nan
Expand(m, sel) ==
    Matrix([i \in 1..Len(sel.keep) |->
               IF ~sel.keep[i] THEN "nan"
               ELSE IF Len(m.rows) = 1 THEN m.rows[1]
               ELSE m.rows[Rank(sel.keep, i)]],
           m.cols)

\* ~mask.reshape(shape): the mask as the caller gave it.
\* (A variant that stores the selector itself, to show what depends on the
\* inversion.)
MutStoredMask(sel, shp) == Some(Reshape(sel.keep, shp))

StoredMask(sel, shp) == Some(Reshape(Invert(sel.keep), shp))

\* Lines 602-611: the signal mask is stored, the excluded factors set to nan.
RemaskSignal(c) ==
    IF c.err # "none" \/ c.sigsel.slice THEN c
    ELSE IF c.reproject \in {"both", "signal"}
    THEN [c EXCEPT !.target =
            [signal_mask |-> StoredMask(c.sigsel, signal_shape_in_array(c.native))]
            @@ c.target]
    ELSE IF ~Broadcasts(Len(c.target.factors[1].rows), Len(Kept(c.sigsel)))
    THEN [c EXCEPT !.err = "ValueError",
                   !.target =
            [signal_mask |-> StoredMask(c.sigsel, signal_shape_in_array(c.native))]
            @@ c.target]
    ELSE [c EXCEPT !.target =
            [signal_mask |-> StoredMask(c.sigsel, signal_shape_in_array(c.native)),
             factors |-> Some(Expand(c.target.factors[1], c.sigsel))]
            @@ c.target]

\* Lines 613-622: the same for the navigation mask and the loadings.
RemaskNavigation(c) ==
    IF c.err # "none" \/ c.navsel.slice THEN c
    ELSE IF c.reproject \in {"both", "navigation"}
    THEN [c EXCEPT !.target =
            [navigation_mask |->
                StoredMask(c.navsel, navigation_shape_in_array(c.native))]
            @@ c.target]
    ELSE IF ~Broadcasts(Len(c.target.loadings[1].rows), Len(Kept(c.navsel)))
    THEN [c EXCEPT !.err = "ValueError",
                   !.target =
            [navigation_mask |->
                StoredMask(c.navsel, navigation_shape_in_array(c.native))]
            @@ c.target]
    ELSE [c EXCEPT !.target =
            [navigation_mask |->
                StoredMask(c.navsel, navigation_shape_in_array(c.native)),
             loadings |-> Some(Expand(c.target.loadings[1], c.navsel))]
            @@ c.target]

\* undo_treatments(): the buffer is refilled from the backup, which is
\* deleted; without a backup AttributeError is raised.
\* (A variant that drops the backup without refilling the buffer, to show
\* what depends on the refill.)
MutUndo(d, backup) == [err |-> "none", data |-> d, backup |-> None]

undo_treatments(d, backup) ==
    IF backup # None
    THEN [err |-> "none", data |-> backup[1], backup |-> None]
    ELSE [err |-> "AttributeError", data |-> d, backup |-> backup]

Folded(c, fd) == [c EXCEPT !.shape = fd.shape, !.folding = fd.folding]

Restored(c, ud) == [c EXCEPT !.data = ud.data, !.backup = ud.backup]

\* Lines 624-632, the finally block: fold(), then undo_treatments() when a
\* backup was asked for (the merge into learning_results is DictUpdate).
Finally(c) ==
    IF c.a.copy
    THEN Restored(IF c.u THEN Folded(c, fold(c.shape, c.folding)) ELSE c,
                  undo_treatments(c.data, c.backup))
    ELSE IF c.u THEN Folded(c, fold(c.shape, c.folding)) ELSE c

\* decomposition(**a) past its up-front checks, on a signal in the given
\* state: the record of the state it leaves, with the error it raises
\* ("none" when it returns) and the target merged into learning_results.
decomposition(d, shp, fo, bk, rA, rB, a) ==
    Finally(RemaskNavigation(RemaskSignal(Rescale(ReprojectSignal(
      ReprojectNavigation(CropAndReset(StoreResults(Dispatch(Select(PreTreat(
        Begin(d, shp, fo, bk, rA, rB, a))))))))))))

\* ------------------------------------------------------- cluster_analysis

cluster_algorithms == {"kmeans", "agglomerative"}

\* _get_number_pca_components_for_clustering: "none" or the error it raises.
get_number_pca_components_for_clustering(lr) ==
    IF lr.number_significant_components = None THEN "ValueError" ELSE "none"

\* _get_number_clusters_for_clustering.
get_number_clusters_for_clustering(lr) ==
    IF lr.number_of_clusters = None THEN "ValueError" ELSE "none"

\* A cluster count as Python holds it: an int, or the list of candidates
\* that the silhouette metric leaves.
Number(k) == [number |-> k]

List(l) == [list |-> l]

IsList(v) == DOMAIN v = {"list"}

\* n_clusters after line 2029 (0: not defined).
NumberOfClusters(lr, a) ==
    IF a.n_clusters # 0 THEN Number(a.n_clusters)
    ELSE IF lr.number_of_clusters = None THEN Number(0)
    ELSE lr.number_of_clusters[1]

\* Lines 2025-2033: the checks between the backup and the try block.  The
\* comparison n_clusters < 2 of a list with an int raises TypeError.
ClusterPreError(lr, a) ==
    IF a.use_decomposition_results /\ a.number_pca_components = 0
       /\ get_number_pca_components_for_clustering(lr) # "none"
    THEN "ValueError"
    ELSE IF a.n_clusters = 0 /\ get_number_clusters_for_clustering(lr) # "none"
    THEN "ValueError"
    ELSE IF IsList(NumberOfClusters(lr, a)) THEN "TypeError"
    ELSE IF NumberOfClusters(lr, a).number < 2 THEN "ValueError"
    ELSE "none"

\* scale_data_for_clustering past unfold(): "none" or the error raised.
ScaleError(lr, a) ==
    IF a.use_decomposition_results /\ lr.loadings = None THEN "AttributeError"
    ELSE IF a.fail = "scaling" THEN "KernelError"
    ELSE "none"

\* _cluster_analysis.
ClusterAlgorithmError(a) ==
    IF a.algorithm \notin cluster_algorithms THEN "ValueError"
    ELSE IF a.fail = "fit" THEN "KernelError"
    ELSE "none"

\* _create_cluster_centers_from_labels, on the unfolded dataset.
CentersError(lr, a, u, native) ==
    IF a.use_decomposition_for_centers /\ a.number_pca_components = 0
       /\ get_number_pca_components_for_clustering(lr) # "none"
    THEN "ValueError"
    ELSE IF ~u /\ Len(NavigationShapeOf(native)) > 1 THEN "ValueError"
    ELSE IF a.use_decomposition_for_centers /\ lr.factors = None
    THEN "AttributeError"
    ELSE "none"

\* The body of the try block: the first error raised, "none" if none.
ClusterTryError(lr, a, u, native) ==
    IF ScaleError(lr, a) # "none" THEN ScaleError(lr, a)
    ELSE IF ClusterAlgorithmError(a) # "none" THEN ClusterAlgorithmError(a)
    ELSE CentersError(lr, a, u, native)

\* Python index i of a sequence.
At(seq, i) == seq[i + 1]

\* np.amax of a non-empty sequence of integers.
Amax(seq) == CHOOSE x \in {seq[j] : j \in 1..Len(seq)} : \A j \in 1..Len(seq) : seq[j] <= x

\* The outcomes of np.argsort(v): the orders of the indices 0..len(v)-1 that
\* put v in ascending order (the default sort is not a stable one, so equal
\* values may come in any order).
ArgSorts(v) ==
    {p \in [1..Len(v) -> 0..(Len(v) - 1)] :
        /\ \A i, j \in 1..Len(v) : i # j => p[i] # p[j]
        /\ \A i, j \in 1..Len(v) : i < j => At(v, p[i]) <= At(v, p[j])}

\* x[::-1]
Reversed(x) == [i \in 1..Len(x) |-> x[Len(x) + 1 - i]]

\* clustersizes: the number of labels equal to i, for i in range(n).
ClusterSizes(labels, n) ==
    [r \in 1..n |-> Cardinality({j \in 1..Len(labels) : labels[j] = r - 1})]

\* lut = zeros_like(idx); lut[idx] = arange(n)
Lut(idx) == [r \in 1..Len(idx) |-> (CHOOSE i \in 1..Len(idx) : idx[i] = r - 1) - 1]

\* The sum of a cluster, kept as the rows that are summed: clus_index is
\* np.where(labels == r), positions in labels, which index the rows of the
\* data (or of the loadings).
ClusterSum(labels, r) == {j \in 1..Len(labels) : labels[j] = r}

\* _create_cluster_centers_from_labels past its checks, on nsamples
\* samples of which keep selects those that were clustered; order is the
\* outcome of argsort on the cluster sizes.  A center is kept as the rows
\* summed and the size it is divided by; an entry of the presence matrix is
\* "1", "0" or "nan".
SortedCenter(centers, sizes, lut, idx, i) ==
    [rows |-> At(centers, At(lut, i)), size |-> At(sizes, At(lut, i))]

MutSortedLabels(labels, lut) == labels

SortedLabels(labels, lut) == [j \in 1..Len(labels) |-> At(lut, labels[j])]

MutPresenceRow(sorted_labels, keep, i) ==
    [s \in 1..Len(keep) |->
        IF ~keep[s] THEN "0"
        ELSE IF sorted_labels[Rank(keep, s)] = i THEN "1" ELSE "0"]

PresenceRow(sorted_labels, keep, i) ==
    [s \in 1..Len(keep) |->
        IF ~keep[s] THEN "nan"
        ELSE IF sorted_labels[Rank(keep, s)] = i THEN "1" ELSE "0"]

create_cluster_centers_from_labels(labels, keep, order) ==
    LET n_clusters == Amax(labels) + 1
        clustersizes == ClusterSizes(labels, n_clusters)
        cluster_centers == [r \in 1..n_clusters |-> ClusterSum(labels, r - 1)]
        idx == Reversed(order)
        lut == Lut(idx)
        sorted_labels == SortedLabels(labels, lut)
    IN  [sorted_labels |-> sorted_labels,
         cluster_labels |->
             [i \in 1..n_clusters |-> PresenceRow(sorted_labels, keep, i - 1)],
         cluster_centers |->
             [i \in 1..n_clusters |->
                 SortedCenter(cluster_centers, clustersizes, lut, idx, i - 1)]]

\* The selector of the navigation mask given to cluster_analysis
\* (_mask_for_clustering), on nsamples samples.
ClusterSelector(a, native, nsamples) ==
    Selector(RavelMask(a.navigation_mask, NavigationShapeOf(native)), nsamples)

\* The fields the finally block sets on the target after a try block that
\* ran to its end.
ClusterResults(lr, a, r) ==
    [cluster_membership |-> Some(r.sorted_labels),
     cluster_labels |-> Some(r.cluster_labels),
     cluster_centers |-> Some(r.cluster_centers),
     number_of_clusters |-> Some(NumberOfClusters(lr, a)),
     cluster_algorithm |-> Some(a.algorithm)]

ClusterTarget(lr, a, u, fo, keep) ==
    (IF u THEN [original_shape |-> fo.original_shape] ELSE EmptyTarget) @@
    ClusterResults(lr, a,
                   create_cluster_centers_from_labels(a.labels, keep, a.order))

\* The finally block after a try block that raised cause ("none": it ran to
\* its end).  Its first statement reads sorted_membership, a local that is
\* bound by the last statement of the try block only: after a failure the
\* read raises UnboundLocalError and the rest of the block is not run.
ClusterFinally(cause, d, un, lr, a) ==
    IF cause # "none"
    THEN [err |-> "UnboundLocalError", cause |-> cause, data |-> d,
          shape |-> un.shape, folding |-> un.folding, u |-> un.changed,
          backup |-> Some(d), target |-> EmptyTarget]
    ELSE LET fd == IF un.changed THEN fold(un.shape, un.folding)
                   ELSE [shape |-> un.shape, folding |-> un.folding]
             ud == undo_treatments(d, Some(d))
         IN  [err |-> ud.err, cause |-> "none", data |-> ud.data,
              shape |-> fd.shape, folding |-> fd.folding, u |-> FALSE,
              backup |-> ud.backup,
              target |-> ClusterTarget(lr, a, un.changed, un.folding,
                    ClusterSelector(a,
                        IF un.changed THEN un.folding.original_shape[1]
                        ELSE un.shape, Len(d)).keep)]

ClusterTry(d, shp, un, lr, a) ==
    ClusterFinally(ClusterTryError(lr, a, un.changed, shp), d, un, lr, a)

\* cluster_analysis(**a) on a signal in the given state: the state it
\* leaves, the error that reaches the caller and the error that caused it.
cluster_analysis(d, shp, fo, u4c, lr, a) ==
    IF ClusterPreError(lr, a) # "none"
    THEN [err |-> ClusterPreError(lr, a), cause |-> ClusterPreError(lr, a),
          data |-> d, shape |-> shp, folding |-> fo, u |-> u4c,
          backup |-> Some(d), target |-> EmptyTarget]
    ELSE ClusterTry(d, shp, unfold(shp, fo), lr, a)

\* ------------------------------------------ estimate_number_of_clusters

\* list(range(lo, hi + 1))
Range(lo, hi) == [i \in 1..(IF hi >= lo THEN hi - lo + 1 ELSE 0) |-> lo + i - 1]

\* seq[i] in Python: a negative index counts from the end.
PyAt(seq, i) == IF i < 0 THEN seq[Len(seq) + i + 1] ELSE seq[i + 1]

\* Lines 2198-2210: the cluster counts to sweep.
k_range(e) ==
    IF e.algorithm = "agglomerative" THEN Range(2, e.max_clusters)
    ELSE IF e.algorithm = "kmeans" /\ e.metric = "silhouette"
    THEN Range(2, e.max_clusters)
    ELSE Range(1, e.max_clusters)

\* min_k = np.min(k_range)
min_k(e) == k_range(e)[1]

\* Line 2247: the silhouette branch sweeps range(2, max_clusters + 1).
SilhouetteRange(e) == Range(2, e.max_clusters)

\* Lines 2190-2195: the checks before the try block.
EstimatePreError(lr, e) ==
    IF e.use_decomposition_results /\ e.number_pca_components = 0
       /\ get_number_pca_components_for_clustering(lr) # "none"
    THEN "ValueError"
    ELSE IF e.max_clusters < 2 THEN "ValueError"
    ELSE "none"

\* Lines 2266-2274: the peaks of the silhouette scores avg; u runs over
\* range(len(avg) - 1) and avg[u - 1] is a Python index.
SilhouettePeaks(avg) ==
    {u \in 0..(Len(avg) - 2) :
        PyAt(avg, u) > PyAt(avg, u - 1) /\ PyAt(avg, u) > PyAt(avg, u + 1)}

\* The elements of a set of integers in ascending order.
RECURSIVE Ascending(_)
Ascending(S) ==
    IF S = {} THEN <<>>
    ELSE LET x == CHOOSE y \in S : \A z \in S : y <= z
         IN  <<x>> \o Ascending(S \ {x})

\* Lines 2262-2274: best_k, max_value being the largest score of a peak,
\* from -1.0.
silhouette_best_k(avg, mink) ==
    LET peaks == Ascending(SilhouettePeaks(avg))
        best_k == [i \in 1..Len(peaks) |-> peaks[i] + mink]
        max_value ==
            CHOOSE x \in {-1} \cup {PyAt(avg, u) : u \in SilhouettePeaks(avg)} :
                \A u \in SilhouettePeaks(avg) : PyAt(avg, u) <= x
    IN  IF PyAt(avg, 0) > max_value THEN <<mink>> \o best_k ELSE best_k

\* Lines 2326-2330: the first i of range(1, len(k_range) - 1) at which the
\* break is taken, if there is one; n is len(k_range).
GapBreaks(gap, std_error, n) ==
    {i \in 1..(n - 2) :
        PyAt(gap, i) >= PyAt(gap, i + 1) - PyAt(std_error, i + 1)}

gap_best_k(gap, std_error, n, mink) ==
    IF GapBreaks(gap, std_error, n) = {} THEN mink
    ELSE Ascending(GapBreaks(gap, std_error, n))[1] + mink

\* Lines 2396-2407: np.log of a value clipped from below at 1e-30, and the
\* value itself, both in millionths.  The curves followed hold 0, 1 or 2:
\* ln(1e-30) = -69.077553, ln 1 = 0, ln 2 = 0.693147, and 1e-30 is 0 to
\* the millionth.
Ln(v) == IF v = 0 THEN 0 - 69077553 ELSE IF v = 1 THEN 0 ELSE 693147

ElbowOrdinate(v, log) == IF log THEN Ln(v) ELSE 1000000 * v

\* Lines 2409-2416: numer for the point of index i (zero-based) of the
\* first m points, x1 = 0 and x2 = m.  y1 is the logarithm of the first
\* value whatever log is.  denom is the same positive number for every
\* point, so that the argmax of distance is the argmax of numer.
ElbowNumer(curve_values, log, m, i) ==
    LET y1 == Ln(curve_values[1])
        y2 == ElbowOrdinate(curve_values[m + 1], log)
        ys == ElbowOrdinate(curve_values[i + 1], log)
        d == (m - 0) * (y1 - ys) - (0 - i) * (y2 - y1)
    IN IF d < 0 THEN 0 - d ELSE d

\* Lines 2342-2421: estimate_elbow_position(curve, log, max_points).  curve
\* is None or Some(values).  np.argmax is the first index of the largest
\* distance, and raises ValueError on an empty array.
estimate_elbow_position(lr, curve, log, max_points) ==
    IF curve = None /\ lr.explained_variance_ratio = None
    THEN [err |-> "ValueError", value |-> 0]
    ELSE LET curve_values == IF curve = None
                             THEN lr.explained_variance_ratio[1]
                             ELSE curve[1]
             m == Min(max_points, Len(curve_values) - 1)
         IN IF Len(curve_values) = 0
            THEN [err |-> "IndexError", value |-> 0]
            ELSE IF m < 1
            THEN [err |-> "ValueError", value |-> 0]
            ELSE [err |-> "none",
                  value |->
                      CHOOSE i \in 0..(m - 1) :
                          /\ \A j \in 0..(m - 1) :
                                 ElbowNumer(curve_values, log, m, j)
                                     <= ElbowNumer(curve_values, log, m, i)
                          /\ \A j \in 0..(i - 1) :
                                 ElbowNumer(curve_values, log, m, j)
                                     < ElbowNumer(curve_values, log, m, i)]

\* The random samples followed are the multiples of 1 / RandomSteps.
RandomSteps == 2

\* Lines 2305-2309: an entry of the reference data of the gap statistic for
\* a feature of the scaled data with minimum xmin and maximum xmax, from
\* the random sample u = sample / RandomSteps of [0, 1).
gap_reference(xmin, xmax, sample) ==
    [num |-> (xmax - xmin) * sample - xmin * RandomSteps, den |-> RandomSteps]

\* Lines 2227-2245: the elbow of the inertia of the sweep, log=False.
InertiaElbow(lr, e) ==
    estimate_elbow_position(lr, Some(e.scores), FALSE, max_points_default)

\* The first error raised in the try block, "none" if it runs to its end.
EstimateTryError(lr, e) ==
    IF ScaleError(lr, e) # "none" THEN ScaleError(lr, e)
    ELSE IF ClusterAlgorithmError(e) # "none" THEN ClusterAlgorithmError(e)
    ELSE IF e.metric = "elbow" THEN InertiaElbow(lr, e).err
    ELSE "none"

\* to_return and best_k when the finally block is entered.
EstimateSweep(lr, e) ==
    IF ScaleError(lr, e) # "none" \/ ClusterAlgorithmError(e) # "none"
    THEN [to_return |-> None, best_k |-> None]
    ELSE IF e.metric = "elbow"
    THEN [to_return |-> Some(e.scores),
          best_k |-> IF InertiaElbow(lr, e).err # "none" THEN None
                     ELSE Some(Number(InertiaElbow(lr, e).value + min_k(e)))]
    ELSE IF e.metric = "silhouette"
    THEN [to_return |-> Some(e.scores),
          best_k |-> Some(List(silhouette_best_k(e.scores, min_k(e))))]
    ELSE [to_return |-> Some(e.scores),
          best_k |-> Some(Number(gap_best_k(e.scores, e.std_error,
                                            Len(k_range(e)), min_k(e))))]

\* Lines 2331-2339: the fields the finally block sets on the target.
EstimateTarget(lr, e) ==
    [cluster_metric_index |->
         Some(IF e.metric = "silhouette" /\ ScaleError(lr, e) = "none"
              THEN SilhouetteRange(e) ELSE k_range(e)),
     cluster_metric_data |-> EstimateSweep(lr, e).to_return,
     cluster_metric |-> Some(e.metric),
     number_of_clusters |-> EstimateSweep(lr, e).best_k]

\* estimate_number_of_clusters(**e) on a signal in the given state.
estimate_number_of_clusters(shp, fo, u4c, lr, e) ==
    IF EstimatePreError(lr, e) # "none"
    THEN [err |-> EstimatePreError(lr, e), shape |-> shp, folding |-> fo,
          u |-> u4c, target |-> EmptyTarget]
    ELSE LET un == unfold(shp, fo)
             fd == IF un.changed THEN fold(un.shape, un.folding)
                   ELSE [shape |-> un.shape, folding |-> un.folding]
         IN  [err |-> EstimateTryError(lr, e), shape |-> fd.shape,
              folding |-> fd.folding, u |-> FALSE,
              target |-> EstimateTarget(lr, e)]

\* ------------------------------------------------ blind source separation

\* In this part a matrix is the sequence of its rows, with integer entries;
\* the result of a product with an inverse is a matrix of fractions, kept as
\* an integer matrix num and a common positive denominator den.

Sum(f, S) ==
    LET RECURSIVE Acc(_)
        Acc(T) == IF T = {} THEN 0
                  ELSE LET x == CHOOSE y \in T : TRUE IN f[x] + Acc(T \ {x})
    IN  Acc(S)

Abs(x) == IF x < 0 THEN -x ELSE x

NumberOfColumns(m) == IF m = <<>> THEN 0 ELSE Len(m[1])

Transpose(m) ==
    [j \in 1..NumberOfColumns(m) |-> [i \in 1..Len(m) |-> m[i][j]]]

\* a @ b
MatMul(a, b) ==
    [i \in 1..Len(a) |->
        [j \in 1..NumberOfColumns(b) |->
            Sum([k \in 1..Len(b) |-> a[i][k] * b[k][j]], 1..Len(b))]]

\* m[:, :n]
FirstColumns(m, n) ==
    [i \in 1..Len(m) |-> SubSeq(m[i], 1, Min(n, Len(m[i])))]

\* m[order, :], order being Python indices.
TakeRows(m, order) == [i \in 1..Len(order) |-> m[order[i] + 1]]

Fraction(num, den) == [num |-> num, den |-> den]

\* The determinant and the adjugate of a square matrix of one or two rows.
Det(w) ==
    IF Len(w) = 1 THEN w[1][1]
    ELSE w[1][1] * w[2][2] - w[1][2] * w[2][1]

Adjugate(w) ==
    IF Len(w) = 1 THEN << <<1>> >>
    ELSE << <<w[2][2], -w[1][2]>>, <<-w[2][1], w[1][1]>> >>

Scaled(m, x) == [i \in 1..Len(m) |-> [j \in 1..Len(m[i]) |-> x * m[i][j]]]

\* np.linalg.inv(w), which raises LinAlgError("Singular matrix") when the
\* determinant is zero.
linalg_inv(w) ==
    IF Det(w) = 0 THEN [err |-> "Singular matrix"]
    ELSE [err |-> "none",
          value |-> Fraction(Scaled(Adjugate(w), IF Det(w) < 0 THEN -1 ELSE 1),
                             Abs(Det(w)))]

\* np.linalg.pinv(w) of a singular matrix of one or two rows: its rank is
\* at most one, and the pseudo-inverse is the transpose divided by the sum
\* of the squares of the entries (the zero matrix for the zero matrix).
SumOfSquares(w) ==
    Sum([i \in 1..Len(w) |-> Sum([j \in 1..Len(w) |-> w[i][j] * w[i][j]],
                                 1..Len(w))], 1..Len(w))

linalg_pinv(w) ==
    Fraction(Transpose(w), IF SumOfSquares(w) = 0 THEN 1 ELSE SumOfSquares(w))

\* Lines 1121-1132 of _unmix_components: w_inv, and whether the warning
\* was given.
MutInverseOrPseudoInverse(w) ==
    IF linalg_inv(w).err = "none"
    THEN [err |-> "none", warned |-> FALSE, value |-> linalg_inv(w).value]
    ELSE [err |-> "LinAlgError", warned |-> FALSE, value |-> linalg_pinv(w)]

InverseOrPseudoInverse(w) ==
    IF linalg_inv(w).err = "none"
    THEN [err |-> "none", warned |-> FALSE, value |-> linalg_inv(w).value]
    ELSE [err |-> "none", warned |-> TRUE, value |-> linalg_pinv(w)]

\* _unmix_components on the record lr, whose unmixing matrix is set.
unmix_components(lr) ==
    LET w == lr.unmixing_matrix[1]
        n == Len(w)
        w_inv == InverseOrPseudoInverse(w)
        f == FirstColumns(lr.factors[1], n)
        l == FirstColumns(lr.loadings[1], n)
    IN  IF w_inv.err # "none"
        THEN [err |-> w_inv.err, warned |-> w_inv.warned, lr |-> lr]
        ELSE [err |-> "none", warned |-> w_inv.warned,
              lr |-> IF lr.on_loadings[1]
                     THEN [lr EXCEPT
                             !.bss_loadings = Some(Fraction(MatMul(l, Transpose(w)), 1)),
                             !.bss_factors = Some(Fraction(MatMul(f, w_inv.value.num),
                                                           w_inv.value.den))]
                     ELSE [lr EXCEPT
                             !.bss_factors = Some(Fraction(MatMul(f, Transpose(w)), 1)),
                             !.bss_loadings = Some(Fraction(MatMul(l, w_inv.value.num),
                                                            w_inv.value.den))]]

\* m[:, i] *= -1 and m[i, :] *= -1, i being a Python index.
NegateColumn(m, i) ==
    [r \in 1..Len(m) |-> [c \in 1..Len(m[r]) |-> IF c = i + 1 THEN -m[r][c] ELSE m[r][c]]]

NegateRow(m, i) ==
    [r \in 1..Len(m) |-> [c \in 1..Len(m[r]) |-> IF r = i + 1 THEN -m[r][c] ELSE m[r][c]]]

\* reverse_bss_component(i) on a record whose results are not lazy.
MutReverse(lr, i) ==
    [lr EXCEPT
       !.bss_factors = Some(Fraction(NegateColumn(lr.bss_factors[1].num, i),
                                     lr.bss_factors[1].den)),
       !.bss_loadings = Some(Fraction(NegateColumn(lr.bss_loadings[1].num, i),
                                      lr.bss_loadings[1].den))]

reverse_bss_component(lr, i) ==
    [lr EXCEPT
       !.bss_factors = Some(Fraction(NegateColumn(lr.bss_factors[1].num, i),
                                     lr.bss_factors[1].den)),
       !.bss_loadings = Some(Fraction(NegateColumn(lr.bss_loadings[1].num, i),
                                      lr.bss_loadings[1].den)),
       !.unmixing_matrix = Some(NegateRow(lr.unmixing_matrix[1], i))]

\* np.nanmin and np.nanmax of column i of a matrix of fractions, times the
\* denominator, which is positive.
NanMin(m, i) ==
    CHOOSE x \in {m.num[r][i + 1] : r \in 1..Len(m.num)} :
        \A r \in 1..Len(m.num) : x <= m.num[r][i + 1]

NanMax(m, i) ==
    CHOOSE x \in {m.num[r][i + 1] : r \in 1..Len(m.num)} :
        \A r \in 1..Len(m.num) : x >= m.num[r][i + 1]

\* The criterion array of _auto_reverse_bss_component.
CriterionValues(lr, criterion) ==
    IF criterion = "factors" THEN lr.bss_factors[1] ELSE lr.bss_loadings[1]

\* One pass of the loop of _auto_reverse_bss_component, for component i.
AutoReverseOne(lr, criterion, i) ==
    IF /\ NanMin(CriterionValues(lr, criterion), i) < 0
       /\ -NanMin(CriterionValues(lr, criterion), i)
              > NanMax(CriterionValues(lr, criterion), i)
    THEN reverse_bss_component(lr, i)
    ELSE lr

\* The passes for the components i, i + 1, ..., n - 1.
RECURSIVE AutoReverseFrom(_, _, _, _)
AutoReverseFrom(lr, criterion, i, n) ==
    IF i >= n THEN lr
    ELSE AutoReverseFrom(AutoReverseOne(lr, criterion, i), criterion, i + 1, n)

\* _auto_reverse_bss_component: with components to go through, a criterion
\* other than "factors" and "loadings" raises ValueError.
auto_reverse_bss_component(lr, criterion) ==
    LET n_components == NumberOfColumns(lr.bss_factors[1].num)
    IN  IF n_components > 0 /\ criterion \notin {"factors", "loadings"}
        THEN [err |-> "ValueError", lr |-> lr]
        ELSE [err |-> "none",
              lr |-> AutoReverseFrom(lr, criterion, 0, n_components)]

\* Lines 809-819: number_of_components and comp_list after the selection
\* (0 and <<>>: not given), or the error raised.
SelectComponents(lr, b) ==
    IF b.number_of_components # 0
    THEN [err |-> "none", n |-> b.number_of_components,
          comp_list |-> Range(0, b.number_of_components - 1)]
    ELSE IF b.comp_list # None
    THEN [err |-> "none", n |-> Len(b.comp_list[1]), comp_list |-> b.comp_list[1]]
    ELSE IF lr.output_dimension # None
    THEN [err |-> "none", n |-> lr.output_dimension[1],
          comp_list |-> Range(0, lr.output_dimension[1] - 1)]
    ELSE [err |-> "ValueError", n |-> 0, comp_list |-> <<>>]

\* The algorithms that blind_source_separation dispatches on.
bss_algorithms == {"orthomax", "sklearn_fastica", "FastICA", "JADE", "CuBICA", "TDSEP"}

\* Lines 733-819: the errors of the checks made before the differences: no
\* decomposition, fewer than two components to choose from, a mask of
\* another shape than the factors, no selection, a selected component that
\* does not exist.
BssCheckError(lr, b) ==
    IF lr.factors = None THEN "AttributeError"
    ELSE IF NumberOfColumns(lr.factors[1]) < 2 THEN "ValueError"
    ELSE IF b.mask # None
            /\ Len(b.mask[1].data)
                   # Len(IF b.on_loadings THEN lr.loadings[1] ELSE lr.factors[1])
    THEN "ValueError"
    ELSE IF SelectComponents(lr, b).err # "none" THEN SelectComponents(lr, b).err
    ELSE IF \E j \in 1..Len(SelectComponents(lr, b).comp_list) :
               SelectComponents(lr, b).comp_list[j] >= NumberOfColumns(lr.factors[1])
    THEN "IndexError"
    ELSE "none"

\* Signal.change_dtype(dtype) on a mask: the object's array is replaced by
\* its conversion, True and False becoming 1.0 and 0.0.
change_dtype(m, dtype) ==
    [dtype |-> dtype,
     data |-> [i \in 1..Len(m.data) |->
                  IF dtype = "float"
                  THEN (IF m.data[i] = "True" THEN "1.0" ELSE "0.0")
                  ELSE (IF m.data[i] = "0.0" THEN "False" ELSE "True")]]

\* Lines 871-897: the mask object of the caller after the differences and
\* the unfolding.  With diff_order > 0 the object is made an array of
\* floats whose ones are set to nan (lines 885-886); the name mask is then
\* bound to the derivative, a new signal, which is the one that gets its
\* nans replaced and its dtype changed back.  unfold() leaves a mask of
\* one dimension as it is.
MaskAfterDifferences(m, diff_order) ==
    IF m = None \/ diff_order = 0 THEN m
    ELSE LET float == change_dtype(m[1], "float")
         IN Some([float EXCEPT !.data =
                     [i \in 1..Len(float.data) |->
                         IF float.data[i] = "1.0" THEN "nan"
                         ELSE float.data[i]]])

\* The errors raised before the kernel returns its unmixing matrix: those
\* of the checks, then an unknown algorithm, a kernel that fails.
BssEarlyError(lr, b) ==
    IF BssCheckError(lr, b) # "none" THEN BssCheckError(lr, b)
    ELSE IF b.algorithm \notin bss_algorithms THEN "ValueError"
    ELSE IF b.fail = "kernel" THEN "KernelError"
    ELSE "none"

\* Lines 980-983: the scores of the rows of w, a square matrix of
\* number_of_components rows:
\* explained_variance[:number_of_components] @ np.abs(w.T).
SortingScores(lr, w) ==
    [j \in 1..Len(w) |->
        Sum([k \in 1..Len(w[j]) |-> lr.explained_variance[1][k] * Abs(w[j][k])],
            1..Len(w[j]))]

\* Lines 974-984: w after the sorting, order being the outcome of argsort
\* on the scores.
Sorted(lr, w, order) ==
    IF lr.explained_variance = None THEN w
    ELSE TakeRows(w, Reversed(order))

\* Lines 986-992, from the sorted w on: the record is written field by
\* field, and an error leaves the fields written before it.
BssStore(lr, b, w) ==
    LET lr1 == [lr EXCEPT !.bss_node = Some("node"),
                          !.unmixing_matrix = Some(w),
                          !.on_loadings = Some(b.on_loadings)]
        um == unmix_components(lr1)
        ar == auto_reverse_bss_component(um.lr, b.reverse_component_criterion)
    IN  IF um.err # "none"
        THEN [err |-> um.err, warned |-> um.warned, lr |-> um.lr]
        ELSE IF ar.err # "none"
        THEN [err |-> ar.err, warned |-> um.warned, lr |-> ar.lr]
        ELSE [err |-> "none", warned |-> um.warned,
              lr |-> [ar.lr EXCEPT !.bss_algorithm = Some(b.algorithm),
                                   !.bss_node = Some("str(node)")]]

\* blind_source_separation(**b) on the record lr; b.w is the unmixing
\* matrix of the kernel (with the whitening applied) and b.order the
\* outcome of argsort.  The node of an algorithm of the MDP toolbox is
\* stored in the record before it is trained.
blind_source_separation(lr, b) ==
    IF BssEarlyError(lr, b) # "none"
    THEN [err |-> BssEarlyError(lr, b), warned |-> FALSE,
          lr |-> IF BssEarlyError(lr, b) = "KernelError"
                    /\ b.algorithm \in {"FastICA", "JADE", "CuBICA", "TDSEP"}
                 THEN [lr EXCEPT !.bss_node = Some("node")] ELSE lr]
    ELSE BssStore(lr, b, Sorted(lr, b.w, b.order))

\* reverse_bss_component(i) called by the user: without results of a
\* separation the first in-place product raises TypeError.
ReverseCall(lr, i) ==
    IF lr.bss_factors = None THEN [err |-> "TypeError", lr |-> lr]
    ELSE IF i >= NumberOfColumns(lr.bss_factors[1].num)
    THEN [err |-> "IndexError", lr |-> lr]
    ELSE [err |-> "none", lr |-> reverse_bss_component(lr, i)]

\* da.from_array(x): a dask array, kept as the pair of a tag and the array
\* (no matrix of the runs has two rows).
from_array(x) == <<"dask", x>>

\* The array as a matrix of integers over a denominator; a result of the
\* decomposition is a matrix of integers unless it is a dask array.
Computed(x, mva_type) ==
    IF mva_type = "bss" THEN x
    ELSE IF Len(x) = 2 /\ x[1] = "dask" THEN x[2]
    ELSE Fraction(x, 1)

\* Lines 1165-1221: _calculate_recmatrix(components, mva_type), components
\* being None or an integer: the array a the model is built from.  The
\* dataset of these runs has one navigation axis, which unfold() leaves as
\* it is, and no mean is stored.
calculate_recmatrix(lr, components, mva_type) ==
    IF (IF mva_type = "decomposition" THEN lr.loadings ELSE lr.bss_loadings)
           = None
    THEN [err |-> "AttributeError", a |-> None]
    ELSE LET factors == Computed(IF mva_type = "decomposition"
                                 THEN lr.factors[1] ELSE lr.bss_factors[1],
                                 mva_type)
             loadings == Computed(IF mva_type = "decomposition"
                                  THEN lr.loadings[1] ELSE lr.bss_loadings[1],
                                  mva_type)
             n == IF components = None THEN NumberOfColumns(factors.num)
                  ELSE components[1]
         IN [err |-> "none",
             a |-> Some(Fraction(MatMul(FirstColumns(factors.num, n),
                                        Transpose(FirstColumns(loadings.num, n))),
                                 factors.den * loadings.den))]

\* Lines 1242-1265: get_bss_model(components) on a signal that is lazy or
\* not: the record after the call and the model.
get_bss_model(lr, is_lazy, components) ==
    LET lr1 == IF is_lazy /\ lr.bss_factors # None
               THEN [lr EXCEPT !.factors = Some(from_array(lr.bss_factors[1])),
                               !.loadings = Some(from_array(lr.bss_loadings[1]))]
               ELSE lr
    IN [lr |-> lr1, rec |-> calculate_recmatrix(lr1, components, "bss")]

\* Lines 1223-1240: get_decomposition_model(components).
get_decomposition_model(lr, components) ==
    [lr |-> lr, rec |-> calculate_recmatrix(lr, components, "decomposition")]

\* ----------------------------------------------------------------- inputs

NativeShape == IF folding.unfolded THEN folding.original_shape[1] ELSE shape

CentresFor(algorithm) ==
    IF algorithm = "svd" THEN {None, Some("navigation")} ELSE {None}

Recognised(algorithm) == algorithm \in algorithms_native \/ is_sklearn_like(algorithm)

\* The number of columns a kernel returns: a scikit-learn estimator built
\* by name is given n_components=output_dimension and the kernels that
\* require a dimension are given it as their rank; an estimator object has
\* its own number of components, and a full SVD returns every component
\* (the crop to output_dimension follows it).
ColumnsFor(algorithm, od) ==
    IF ~Recognised(algorithm) THEN {1}
    ELSE IF algorithm \in algorithms_sklearn \cup algorithms_require_dimension
            /\ od # 0
    THEN {od}
    ELSE 1..(MaxOutputDimension + 1)

\* A failure is drawn where it can happen: a kernel that raises returns no
\* columns (m is then 1), transform() is called by the navigation
\* reprojection of an estimator only.
FailuresFor(algorithm, reproject, m) ==
    {f \in Failures :
        \/ f = "none"
        \/ f = "algorithm" /\ Recognised(algorithm) /\ m = 1
        \/ f = "transform" /\ is_sklearn_like(algorithm)
                           /\ reproject \in {"navigation", "both"}}

ElbowsFor(algorithm, m) ==
    IF HasExplainedVariance(algorithm) /\ ElbowRange(m) # {}
    THEN ElbowRange(m) ELSE {0}

\* The plain arguments of an earlier call: an SVD with or without
\* normalization and backup on the whole dataset, or an SVD under a signal
\* mask.
EarlierArgs ==
    {[normalize_poissonian_noise |-> npn, algorithm |-> "svd",
      output_dimension |-> 0, centre |-> None, navigation_mask |-> None,
      signal_mask |-> None, reproject |-> "none", copy |-> cp,
      m |-> 2, fail |-> "none", elbow |-> 0] :
        npn \in BOOLEAN, cp \in BOOLEAN} \cup
    {[normalize_poissonian_noise |-> FALSE, algorithm |-> "svd",
      output_dimension |-> 0, centre |-> None, navigation_mask |-> None,
      signal_mask |-> sm, reproject |-> "none", copy |-> cp,
      m |-> 2, fail |-> "none", elbow |-> 0] :
        cp \in BOOLEAN, sm \in SignalMasks(NativeShape) \ {None}}

ClusterFailures == {"none", "scaling", "fit"}

\* The arguments of cluster_analysis in the model (0: None), with the
\* labels the clustering kernel returns (one sample apart from the others)
\* and the outcome of the argsort of the two cluster sizes.
ClusterArgs ==
    [n_clusters : 0..2, use_decomposition_results : BOOLEAN,
     use_decomposition_for_centers : BOOLEAN, number_pca_components : 0..1,
     algorithm : {"kmeans", "unknown"}, fail : ClusterFailures, copy : {TRUE},
     navigation_mask : {None}, labels : {<<1, 0, 0, 0>>}, order : {<<0, 1>>}]

\* ---------------------------------------------------------------- actions

NoArgs == [copy |-> FALSE]

Init ==
    /\ data \in InitialData
    /\ shape \in Shapes
    /\ folding = [unfolded |-> FALSE, original_shape |-> None]
    /\ unfolded4decomposition = FALSE
    /\ unfolded4clustering = FALSE
    /\ data_before_treatments = None
    /\ root_aG = None
    /\ root_bH = None
    /\ learning_results = LearningResults
    /\ last = [op |-> "init", outcome |-> "returned", error |-> "none",
               cause |-> "none", args |-> NoArgs, pre_data |-> data,
               pre_shape |-> shape, pre_results |-> learning_results]
    /\ earlier = 0
    /\ analysed = FALSE
    /\ bss_mask = None
    /\ lazy = FALSE

\* A call of decomposition(**a) that the up-front checks reject.
Rejected(a) ==
    /\ UpFrontError(a) # "none"
    /\ last' = [op |-> "decomposition", outcome |-> "rejected",
                error |-> UpFrontError(a), cause |-> UpFrontError(a),
                args |-> a, pre_data |-> data, pre_shape |-> shape,
                pre_results |-> learning_results]
    /\ UNCHANGED <<data, shape, folding, unfolded4decomposition,
                   data_before_treatments, root_aG, root_bH, learning_results>>

\* A call of decomposition(**a) that gets past them.
Accepted(a) ==
    /\ UpFrontError(a) = "none"
    /\ \E r \in {decomposition(data, shape, folding, data_before_treatments,
                                root_aG, root_bH, a)} :
         /\ last' = [op |-> "decomposition",
                     outcome |-> IF r.err = "none" THEN "returned" ELSE "raised",
                     error |-> r.err, cause |-> r.err, args |-> a,
                     pre_data |-> data, pre_shape |-> shape,
                     pre_results |-> learning_results]
         /\ data' = r.data
         /\ shape' = r.shape
         /\ folding' = r.folding
         /\ unfolded4decomposition' = FALSE
         /\ data_before_treatments' = r.backup
         /\ root_aG' = r.root_aG
         /\ root_bH' = r.root_bH
         /\ learning_results' = DictUpdate(learning_results, r.target)

\* A call of decomposition(**a).
Decomposition(a) ==
    /\ IF UpFrontError(a) # "none" THEN Rejected(a) ELSE Accepted(a)
    /\ UNCHANGED unfolded4clustering

EarlierDecomposition ==
    /\ ~analysed
    /\ earlier < MaxEarlierCalls
    /\ \E a \in EarlierArgs : Decomposition(a)
    /\ earlier' = earlier + 1
    /\ UNCHANGED analysed
    /\ UNCHANGED <<bss_mask, lazy>>

AnyDecomposition ==
    /\ ~analysed
    /\ \E npn \in BOOLEAN, algorithm \in Algorithms,
          od \in 0..MaxOutputDimension,
          nm \in NavigationMasks(NativeShape), sm \in SignalMasks(NativeShape),
          reproject \in Reprojections, cp \in BOOLEAN :
         \E centre \in CentresFor(algorithm), m \in ColumnsFor(algorithm, od) :
           \E fail \in FailuresFor(algorithm, reproject, m),
              elbow \in ElbowsFor(algorithm, m) :
              Decomposition([normalize_poissonian_noise |-> npn,
                             algorithm |-> algorithm, output_dimension |-> od,
                             centre |-> centre, navigation_mask |-> nm,
                             signal_mask |-> sm, reproject |-> reproject,
                             copy |-> cp, m |-> m, fail |-> fail,
                             elbow |-> elbow])
    /\ analysed' = TRUE
    /\ UNCHANGED earlier
    /\ UNCHANGED <<bss_mask, lazy>>

\* A call of cluster_analysis(**a).
ClusterAnalysisCall(a) ==
    /\ \E r \in {cluster_analysis(data, shape, folding, unfolded4clustering,
                                   learning_results, a)} :
         /\ last' = [op |-> "cluster_analysis",
                     outcome |-> IF r.err = "none" THEN "returned"
                                 ELSE "raised",
                     error |-> r.err, cause |-> r.cause, args |-> a,
                     pre_data |-> data, pre_shape |-> shape,
                     pre_results |-> learning_results]
         /\ data' = r.data
         /\ shape' = r.shape
         /\ folding' = r.folding
         /\ unfolded4clustering' = r.u
         /\ data_before_treatments' = r.backup
         /\ learning_results' = DictUpdate(learning_results, r.target)
    /\ UNCHANGED <<unfolded4decomposition, root_aG, root_bH>>

ClusterAnalysis ==
    /\ ~analysed
    /\ \E a \in ClusterArgs : ClusterAnalysisCall(a)
    /\ analysed' = TRUE
    /\ UNCHANGED earlier
    /\ UNCHANGED <<bss_mask, lazy>>

\* A call of undo_treatments() by the user.
UndoTreatments ==
    LET r == undo_treatments(data, data_before_treatments)
    IN  /\ last.op # "undo_treatments"
        /\ data' = r.data
        /\ data_before_treatments' = r.backup
        /\ last' = [op |-> "undo_treatments",
                    outcome |-> IF r.err = "none" THEN "returned" ELSE "raised",
                    error |-> r.err, cause |-> r.err, args |-> NoArgs,
                    pre_data |-> data, pre_shape |-> shape,
                    pre_results |-> learning_results]
        /\ UNCHANGED <<shape, folding, unfolded4decomposition,
                       unfolded4clustering, root_aG, root_bH,
                       learning_results, earlier, analysed>>
        /\ UNCHANGED <<bss_mask, lazy>>

Next ==
    \/ EarlierDecomposition
    \/ AnyDecomposition
    \/ ClusterAnalysis
    \/ UndoTreatments

Spec == Init /\ [][Next]_vars

\* ------------------------------------------- clustering of a fresh signal

\* A second family of runs: on a signal of six samples that has not been
\* decomposed, either one cluster_analysis with a given number of clusters,
\* or estimate_number_of_clusters followed by cluster_analysis without one.

\* Six navigation positions, as a line or as a 2x3 map, one channel.
SampleShapes == {<<6, 1>>, <<2, 3, 1>>}

SampleData == Lift(<< <<1>>, <<2>>, <<3>>, <<4>>, <<5>>, <<6>> >>)

\* No navigation mask, or one that excludes the second position.
SampleMasks(s) ==
    {None,
     Some(Reshape(<<FALSE, TRUE, FALSE, FALSE, FALSE, FALSE>>,
                  NavigationShapeOf(s)))}

\* The number of samples that a navigation mask leaves.
SamplesLeft(mask, s) ==
    Len(Kept(Selector(RavelMask(mask, NavigationShapeOf(s)), Len(SampleData))))

\* The sweeps go up to MaxClusters clusters; the given numbers of clusters
\* up to MaxGivenClusters.
MaxClusters == 5

MaxGivenClusters == 3

\* The largest count the kernels accept on m samples: a clustering has at
\* most m clusters and a silhouette score is defined up to m - 1.
SweepLimit(metric, m) == IF metric = "silhouette" THEN m - 1 ELSE m

\* The scores of a sweep that ran to its end, each 0, 1 or 2 (a silhouette
\* score is above the -1.0 from which max_value starts; the elbow metric
\* stores the inertia of every count), and the standard errors of the gap
\* statistic, 0 or 1 throughout.
ScoresFor(e) ==
    IF e.metric = "silhouette"
    THEN [1..Len(SilhouetteRange(e)) -> 0..2]
    ELSE [1..Len(k_range(e)) -> 0..2]

StdErrorsFor(e) ==
    IF e.metric = "gap"
    THEN {[i \in 1..Len(k_range(e)) |-> x] : x \in 0..1}
    ELSE {<<>>}

\* The smallest and largest value of a feature of the scaled data: 0 and 1
\* after MinMaxScaler, those of the samples without scaling.
FeatureRange(scaling) ==
    IF scaling = "minmax" THEN <<0, 1>> ELSE <<1, 6>>

\* The scalings and random samples of a sweep: they matter to the gap
\* statistic only.
ScalingsFor(metric) ==
    IF metric = "gap" THEN {"minmax", "none"} ELSE {"minmax"}

RandomSamplesFor(metric) ==
    IF metric = "gap" THEN 0..(RandomSteps - 1) ELSE {0}

\* The labels a clustering of m samples in n clusters can return: every
\* cluster has a sample.  Without such a clustering the kernel fails.
LabelsFor(n, m) ==
    IF n \in 2..m
    THEN {l \in [1..m -> 0..(n - 1)] : \A c \in 0..(n - 1) : \E j \in 1..m : l[j] = c}
    ELSE {<<>>}

\* One of them: the samples dealt to the clusters in turn.
DealtLabels(n, m) ==
    IF n \in 2..m THEN {[j \in 1..m |-> (j - 1) % n]} ELSE {<<>>}

OrdersFor(labels) ==
    IF labels = <<>> THEN {<<>>}
    ELSE ArgSorts(ClusterSizes(labels, Amax(labels) + 1))

ClusterInit ==
    /\ data = SampleData
    /\ shape \in SampleShapes
    /\ folding = [unfolded |-> FALSE, original_shape |-> None]
    /\ unfolded4decomposition = FALSE
    /\ unfolded4clustering = FALSE
    /\ data_before_treatments = None
    /\ root_aG = None
    /\ root_bH = None
    /\ learning_results = LearningResults
    /\ last = [op |-> "init", outcome |-> "returned", error |-> "none",
               cause |-> "none", args |-> NoArgs, pre_data |-> data,
               pre_shape |-> shape, pre_results |-> learning_results]
    /\ earlier = 0
    /\ analysed = FALSE
    /\ bss_mask = None
    /\ lazy = FALSE

\* A call of estimate_number_of_clusters(**e).
EstimateCall(e) ==
    /\ \E r \in {estimate_number_of_clusters(shape, folding,
                     unfolded4clustering, learning_results, e)} :
         /\ last' = [op |-> "estimate_number_of_clusters",
                     outcome |-> IF r.err = "none" THEN "returned"
                                 ELSE "raised",
                     error |-> r.err, cause |-> r.err, args |-> e,
                     pre_data |-> data, pre_shape |-> shape,
                     pre_results |-> learning_results]
         /\ shape' = r.shape
         /\ folding' = r.folding
         /\ unfolded4clustering' = r.u
         /\ learning_results' = DictUpdate(learning_results, r.target)
    /\ UNCHANGED <<data, unfolded4decomposition, data_before_treatments,
                   root_aG, root_bH>>

EstimateNumberOfClusters ==
    /\ ~analysed
    /\ earlier = 0
    /\ \E metric \in {"elbow", "silhouette", "gap"},
          algorithm \in {"kmeans", "agglomerative", "unknown"},
          udr \in BOOLEAN, nm \in SampleMasks(shape),
          fail \in {"none", "fit"} :
         \E max_clusters \in 1..Min(MaxClusters,
                                    SweepLimit(metric, SamplesLeft(nm, shape))),
            scaling \in ScalingsFor(metric),
            sample \in RandomSamplesFor(metric) :
           \E e0 \in {[max_clusters |-> max_clusters, algorithm |-> algorithm,
                       metric |-> metric, use_decomposition_results |-> udr,
                       number_pca_components |-> 0, navigation_mask |-> nm,
                       fail |-> fail, scaling |-> scaling,
                       random_sample |-> sample]} :
             \E scores \in ScoresFor(e0), std_error \in StdErrorsFor(e0) :
                /\ (EstimatePreError(learning_results, e0) # "none"
                    \/ ScaleError(learning_results, e0) # "none"
                    \/ ClusterAlgorithmError(e0) # "none")
                   => /\ scores = [i \in DOMAIN scores |-> 0]
                      /\ std_error = [i \in DOMAIN std_error |-> 0]
                      /\ scaling = "minmax"
                      /\ sample = 0
                /\ EstimateCall(e0 @@ [scores |-> scores,
                                       std_error |-> std_error])
    /\ earlier' = 1
    /\ UNCHANGED analysed
    /\ UNCHANGED <<bss_mask, lazy>>

\* cluster_analysis() without a number of clusters, after the estimate.
ClusterAnalysisAtEstimate ==
    /\ ~analysed
    /\ earlier = 1
    /\ \E nm \in {last.args.navigation_mask} :
         \E labels \in DealtLabels(
                IF IsList(NumberOfClusters(learning_results, [n_clusters |-> 0]))
                THEN 0
                ELSE NumberOfClusters(learning_results, [n_clusters |-> 0]).number,
                SamplesLeft(nm, shape)) :
           \E order \in OrdersFor(labels), fail \in (IF labels = <<>> THEN {"fit"} ELSE ClusterFailures) :
              ClusterAnalysisCall(
                  [n_clusters |-> 0, use_decomposition_results |-> FALSE,
                   use_decomposition_for_centers |-> FALSE,
                   number_pca_components |-> 0,
                   algorithm |-> last.args.algorithm, fail |-> fail,
                   copy |-> TRUE, navigation_mask |-> nm, labels |-> labels,
                   order |-> order])
    /\ analysed' = TRUE
    /\ UNCHANGED earlier
    /\ UNCHANGED <<bss_mask, lazy>>

\* cluster_analysis(n_clusters=n) on the fresh signal.
ClusterAnalysisOfLabels ==
    /\ ~analysed
    /\ earlier = 0
    /\ \E n \in 1..MaxGivenClusters, nm \in SampleMasks(shape),
          udr \in BOOLEAN, algorithm \in {"kmeans", "unknown"} :
         \E labels \in LabelsFor(n, SamplesLeft(nm, shape)) :
           \E order \in OrdersFor(labels), fail \in (IF labels = <<>> THEN {"fit"} ELSE ClusterFailures) :
              ClusterAnalysisCall(
                  [n_clusters |-> n, use_decomposition_results |-> udr,
                   use_decomposition_for_centers |-> FALSE,
                   number_pca_components |-> 0, algorithm |-> algorithm,
                   fail |-> fail, copy |-> TRUE, navigation_mask |-> nm,
                   labels |-> labels, order |-> order])
    /\ analysed' = TRUE
    /\ UNCHANGED earlier
    /\ UNCHANGED <<bss_mask, lazy>>

\* ---------------------------------------------- results read from a file

\* Lines 2497-2503: the value set on the record for an array of the file:
\* None for an array of objects, the item of an array without dimension,
\* the array otherwise.
Loaded(value) ==
    IF value.dtype = "object" THEN None
    ELSE IF value.ndim = 0 THEN Some([item |-> value.item])
    ELSE Some(value)

\* setattr, hasattr and del on a record of attributes.
SetAttr(r, key, value) ==
    [k \in DOMAIN r \cup {key} |-> IF k = key THEN value ELSE r[k]]

DelAttr(r, key) == [k \in DOMAIN r \ {key} |-> r[k]]

\* Lines 2507-2543: the old names in the order load looks for them, each
\* with the field its value goes to, "" for a name that is only deleted.
LegacyNames ==
    << <<"algorithm", "decomposition_algorithm">>,
       <<"V", "explained_variance">>,
       <<"w", "unmixing_matrix">>,
       <<"variance2one", "">>,
       <<"centered", "">>,
       <<"pca_algorithm", "decomposition_algorithm">>,
       <<"ica_algorithm", "bss_algorithm">>,
       <<"v", "loadings">>,
       <<"scores", "loadings">>,
       <<"pc", "loadings">>,
       <<"ica_scores", "bss_loadings">>,
       <<"ica_factors", "bss_factors">> >>

\* One if-block of lines 2507-2543.
Rename(r, old, new) ==
    IF old \notin DOMAIN r THEN r
    ELSE IF new = "" THEN DelAttr(r, old)
    ELSE DelAttr(SetAttr(r, new, r[old]), old)

RECURSIVE RenameFrom(_, _)
RenameFrom(r, i) ==
    IF i > Len(LegacyNames) THEN r
    ELSE RenameFrom(Rename(r, LegacyNames[i][1], LegacyNames[i][2]), i + 1)

\* Lines 2497-2503: every array of the file set on the record under its key.
SetAll(r, archive) ==
    [k \in DOMAIN r \cup DOMAIN archive |->
        IF k \in DOMAIN archive THEN Loaded(archive[k]) ELSE r[k]]

\* Lines 2487-2545: LearningResults.load(filename) on the record lr, the
\* file holding archive.  summary() takes the length of the unmixing
\* matrix when there is a bss_algorithm, a TypeError without a matrix.
load(lr, archive) ==
    LET r == RenameFrom(SetAll(lr, archive), 1)
    IN [lr |-> r,
        err |-> IF r.bss_algorithm # None /\ r.unmixing_matrix = None
                THEN "TypeError" ELSE "none"]

\* The curves handed to estimate_elbow_position: none, or up to
\* MaxCurveLength values, each 0, 1 or 2.
MaxCurveLength == 4

Curves ==
    {None} \cup
    {Some(c) : c \in UNION {[1..n -> 0..2] : n \in 1..MaxCurveLength}}

\* estimate_elbow_position(curve, log, max_points) on the fresh signal,
\* which reads the signal's results when no curve is given and writes
\* nothing.
EstimateElbowPosition ==
    /\ ~analysed
    /\ earlier = 0
    /\ \E curve \in Curves, log \in BOOLEAN,
          max_points \in {2, max_points_default} :
         \E r \in {estimate_elbow_position(learning_results, curve, log,
                                           max_points)} :
           last' = [op |-> "estimate_elbow_position",
                    outcome |-> IF r.err = "none" THEN "returned"
                                ELSE "raised",
                    error |-> r.err, cause |-> r.err,
                    args |-> [curve |-> curve, log |-> log,
                              max_points |-> max_points],
                    pre_data |-> data, pre_shape |-> shape,
                    pre_results |-> learning_results,
                    result |-> r.value]
    /\ analysed' = TRUE
    /\ UNCHANGED <<data, shape, folding, unfolded4decomposition,
                   unfolded4clustering, data_before_treatments, root_aG,
                   root_bH, learning_results, earlier>>
    /\ UNCHANGED <<bss_mask, lazy>>

\* The files load is given: up to MaxArchiveKeys arrays under old names
\* or under the names the old ones are moved to.
MaxArchiveKeys == 2

ArchiveKeys ==
    {LegacyNames[i][j] : i \in 1..Len(LegacyNames), j \in 1..2} \ {""}

ArchiveValues ==
    {[dtype |-> "object", ndim |-> 0, item |-> "a"],
     [dtype |-> "str", ndim |-> 0, item |-> "a"],
     [dtype |-> "float", ndim |-> 2, item |-> "b"]}

Archives ==
    UNION {[keys -> ArchiveValues] :
              keys \in {K \in SUBSET ArchiveKeys :
                           Cardinality(K) \in 1..MaxArchiveKeys}}

\* learning_results.load(filename) on the fresh signal.
Load ==
    /\ ~analysed
    /\ earlier = 0
    /\ \E archive \in Archives :
         \E r \in {load(learning_results, archive)} :
           /\ last' = [op |-> "load",
                       outcome |-> IF r.err = "none" THEN "returned"
                                   ELSE "raised",
                       error |-> r.err, cause |-> r.err,
                       args |-> [archive |-> archive],
                       pre_data |-> data, pre_shape |-> shape,
                       pre_results |-> learning_results]
           /\ learning_results' = r.lr
    /\ analysed' = TRUE
    /\ UNCHANGED <<data, shape, folding, unfolded4decomposition,
                   unfolded4clustering, data_before_treatments, root_aG,
                   root_bH, earlier>>
    /\ UNCHANGED <<bss_mask, lazy>>

ClusterNext ==
    \/ EstimateNumberOfClusters
    \/ ClusterAnalysisAtEstimate
    \/ ClusterAnalysisOfLabels
    \/ EstimateElbowPosition
    \/ Load

ClusterSpec == ClusterInit /\ [][ClusterNext]_vars

\* ------------------------------------- separation of a decomposed signal

\* A third family of runs: blind_source_separation, then
\* reverse_bss_component, on the first dataset of four positions and three
\* channels, either not decomposed or decomposed in three components (with
\* or without explained variance: an estimator of scikit-learn gives none).
\* Here the factors (channels x components), the loadings (positions x
\* components) and the explained variance are followed by value.
BssResults ==
    {LearningResults} \cup
    {[LearningResults EXCEPT
        !.factors = Some(<< <<1, 0, -2>>, <<0, 1, 1>>, <<2, -1, 0>> >>),
        !.loadings = Some(<< <<1, 2, 0>>, <<-1, 0, 3>>, <<0, 1, -1>>, <<2, 0, 1>> >>),
        !.explained_variance = explained_variance,
        !.decomposition_algorithm = Some("svd")] :
     explained_variance \in {None, Some(<<2, 1, 1>>)}}

\* The mask objects a caller holds: none, a boolean mask of the three
\* channels, one of the four positions.
BssMasks ==
    {None,
     Some([dtype |-> "bool", data |-> <<"False", "True", "False">>]),
     Some([dtype |-> "bool", data |-> <<"False", "False", "False", "True">>])}

\* The selections of components: a number, a list, or neither.
ComponentSelections ==
    {[number_of_components |-> n, comp_list |-> None] : n \in 1..2} \cup
    {[number_of_components |-> 0, comp_list |-> l] :
        l \in {None, Some(<<0, 1>>), Some(<<0, 2>>), Some(<<1, 2>>),
               Some(<<1>>), Some(<<3>>)}}

\* The unmixing matrices of n rows a kernel returns in the model.
UnmixingMatrices(n) == [1..n -> [1..n -> -1..1]]

OrdersOf(lr, w) ==
    IF lr.explained_variance = None THEN {<<>>}
    ELSE ArgSorts(SortingScores(lr, w))

BssInit ==
    /\ data = Lift(<< <<1, 2, 0>>, <<3, 0, 1>>, <<0, 0, 0>>, <<2, 1, 4>> >>)
    /\ shape = <<4, 3>>
    /\ folding = [unfolded |-> FALSE, original_shape |-> None]
    /\ unfolded4decomposition = FALSE
    /\ unfolded4clustering = FALSE
    /\ data_before_treatments = None
    /\ root_aG = None
    /\ root_bH = None
    /\ learning_results \in BssResults
    /\ last = [op |-> "init", outcome |-> "returned", error |-> "none",
               cause |-> "none", args |-> NoArgs, pre_data |-> data,
               pre_shape |-> shape, pre_results |-> learning_results]
    /\ earlier = 0
    /\ analysed = FALSE
    /\ bss_mask \in BssMasks
    /\ lazy \in BOOLEAN

\* A call of blind_source_separation(**b).
BssCall(b) ==
    /\ \E r \in {blind_source_separation(learning_results, b)} :
         /\ last' = [op |-> "blind_source_separation",
                     outcome |-> IF r.err = "none" THEN "returned"
                                 ELSE "raised",
                     error |-> r.err, cause |-> r.err, args |-> b,
                     pre_data |-> data, pre_shape |-> shape,
                     pre_results |-> learning_results, warned |-> r.warned]
         /\ learning_results' = r.lr
         /\ bss_mask' = IF BssCheckError(learning_results, b) # "none"
                        THEN bss_mask
                        ELSE MaskAfterDifferences(bss_mask, b.diff_order)
    /\ UNCHANGED <<data, shape, folding, unfolded4decomposition,
                   unfolded4clustering, data_before_treatments, root_aG,
                   root_bH, lazy>>

\* blind_source_separation with the mask object of the caller, if any.
BlindSourceSeparation ==
    /\ ~analysed
    /\ \E sel \in ComponentSelections,
          algorithm \in {"orthomax", "sklearn_fastica", "unknown"},
          on_loadings \in BOOLEAN,
          criterion \in {"factors", "loadings", "other"},
          fail \in {"none", "kernel"},
          diff_order \in 0..1 :
         \E b0 \in {sel @@ [algorithm |-> algorithm, on_loadings |-> on_loadings,
                             reverse_component_criterion |-> criterion,
                             fail |-> fail, mask |-> bss_mask,
                             diff_order |-> diff_order]} :
           IF BssEarlyError(learning_results, b0) # "none"
           THEN BssCall(b0 @@ [w |-> <<>>, order |-> <<>>])
           ELSE \E w \in UnmixingMatrices(SelectComponents(learning_results, b0).n) :
                  \E order \in OrdersOf(learning_results, w) :
                     BssCall(b0 @@ [w |-> w, order |-> order])
    /\ analysed' = TRUE
    /\ UNCHANGED earlier

\* A call of reverse_bss_component(i) by the user, after the separation.
ReverseBssComponent ==
    /\ analysed
    /\ last.op = "blind_source_separation"
    /\ \E i \in 0..2 :
         \E r \in {ReverseCall(learning_results, i)} :
           /\ last' = [op |-> "reverse_bss_component",
                       outcome |-> IF r.err = "none" THEN "returned"
                                   ELSE "raised",
                       error |-> r.err, cause |-> r.err,
                       args |-> [copy |-> FALSE, component_number |-> i],
                       pre_data |-> data, pre_shape |-> shape,
                       pre_results |-> learning_results]
           /\ learning_results' = r.lr
    /\ UNCHANGED <<data, shape, folding, unfolded4decomposition,
                   unfolded4clustering, data_before_treatments, root_aG,
                   root_bH, earlier, analysed>>
    /\ UNCHANGED <<bss_mask, lazy>>

\* get_bss_model() or get_decomposition_model() called by a user who
\* holds no mask, on the signal as it was loaded or after the separation.
GetModel(op) ==
    /\ last.op \in {"init", "blind_source_separation"}
    /\ bss_mask = None
    /\ \E components \in {None, Some(1)} :
         \E r \in {IF op = "get_bss_model"
                    THEN get_bss_model(learning_results, lazy, components)
                    ELSE get_decomposition_model(learning_results, components)} :
           /\ last' = [op |-> op,
                       outcome |-> IF r.rec.err = "none" THEN "returned"
                                   ELSE "raised",
                       error |-> r.rec.err, cause |-> r.rec.err,
                       args |-> [copy |-> FALSE, components |-> components],
                       pre_data |-> data, pre_shape |-> shape,
                       pre_results |-> learning_results,
                       result |-> r.rec.a]
           /\ learning_results' = r.lr
    /\ analysed' = TRUE
    /\ UNCHANGED <<data, shape, folding, unfolded4decomposition,
                   unfolded4clustering, data_before_treatments, root_aG,
                   root_bH, earlier, bss_mask, lazy>>

GetBssModel == GetModel("get_bss_model")

GetDecompositionModel == GetModel("get_decomposition_model")

BssNext ==
    \/ BlindSourceSeparation
    \/ ReverseBssComponent
    \/ GetBssModel
    \/ GetDecompositionModel

BssSpec == BssInit /\ [][BssNext]_vars

\* ----------------------------------------------------------------- claims

\* The call that has just ended is a decomposition() that got past its
\* up-front checks.
DecompositionEnded ==
    last.op = "decomposition" /\ last.outcome \in {"returned", "raised"}

DecompositionReturned == last.op = "decomposition" /\ last.outcome = "returned"

\* Some value of a buffer d differs from the one at the same place of e.
Differs(d, e) == \E i \in 1..Len(d) : \E j \in 1..Len(d[i]) : d[i][j] # e[i][j]

\* C1: when decomposition(copy=True) gets past its up-front checks and
\* returns or raises, the dataset has the shape it had before the call,
\* _unfolded4decomposition is False and the buffer equals its content
\* before the call.
C1_CopyLeavesSignalAsBefore ==
    (DecompositionEnded /\ last.args.copy) =>
        /\ shape = last.pre_shape
        /\ ~folding.unfolded
        /\ ~unfolded4decomposition
        /\ data = last.pre_data

\* A decomposition(copy=True) of a 2x2 map that normalized the buffer and
\* then raised on the unrecognised algorithm.
C1_Witness ==
    /\ DecompositionEnded /\ last.outcome = "raised" /\ last.args.copy
    /\ last.args.algorithm = "unknown"
    /\ last.args.normalize_poissonian_noise
    /\ last.args.signal_mask = None
    /\ root_aG # None
    /\ Len(last.pre_shape) = 3
    /\ Differs(normalize_poissonian_noise(last.pre_data, None, None).data,
               last.pre_data)

C3_AsStated ==
    (last.op = "cluster_analysis" /\ last.outcome = "raised") =>
        /\ last.error = last.cause
        /\ shape = last.pre_shape
        /\ ~folding.unfolded
        /\ data = last.pre_data

\* C4: when decomposition() raises, every field of learning_results has
\* the value it had before the call.
C4_AsStated ==
    (last.op = "decomposition" /\ last.outcome \in {"rejected", "raised"}) =>
        learning_results = last.pre_results

\* C5: after a decomposition() that returned, the stored factors and
\* loadings have the same number of columns, which is output_dimension when
\* it was given.
C5_AsStated ==
    DecompositionReturned =>
        /\ learning_results.factors[1].cols = learning_results.loadings[1].cols
        /\ last.args.output_dimension # 0 =>
             learning_results.factors[1].cols = last.args.output_dimension

SignalReprojected ==
    last.args.reproject \in {"signal", "both"} /\ ~is_sklearn_like(last.args.algorithm)

NavigationReprojected == last.args.reproject \in {"navigation", "both"}

\* The rows of a stored matrix against the flat mask of the caller: one row
\* per position, the excluded ones nan, or reprojected when reprojected is
\* true, the kept ones computed.
RowsFollowMask(rows, mask, reprojected) ==
    /\ Len(rows) = Len(mask)
    /\ \A i \in 1..Len(mask) :
         IF mask[i] THEN rows[i] = (IF reprojected THEN "proj" ELSE "nan")
         ELSE rows[i] = "alg" \/ (reprojected /\ rows[i] = "proj")

\* C7: after a decomposition() that returned with a signal_mask (resp.
\* navigation_mask), the stored factors (resp. loadings) have one row per
\* feature (resp. sample), the excluded rows are nan unless the
\* reprojection was performed, and then reprojected, and the kept rows
\* hold computed values.
C7_AsStated ==
    DecompositionReturned =>
        /\ last.args.signal_mask # None =>
             RowsFollowMask(learning_results.factors[1].rows,
                            last.args.signal_mask[1], SignalReprojected)
        /\ last.args.navigation_mask # None =>
             RowsFollowMask(learning_results.loadings[1].rows,
                            Ravel(last.args.navigation_mask[1],
                                  NavigationShapeOf(last.pre_shape)),
                            NavigationReprojected)

\* C8: after a decomposition() that returned with an explained variance,
\* explained_variance and explained_variance_ratio have as many entries as
\* the stored factors have columns.
C8_AsStated ==
    (DecompositionReturned /\ learning_results.explained_variance # None) =>
        /\ learning_results.explained_variance[1] = learning_results.factors[1].cols
        /\ learning_results.explained_variance_ratio[1] =
               learning_results.factors[1].cols

\* C9: undo_treatments() called right after
\* decomposition(normalize_poissonian_noise=True, copy=True) returned
\* succeeds and leaves the data of before the decomposition.
C9_AsStated ==
    [][(/\ DecompositionReturned
        /\ last.args.normalize_poissonian_noise /\ last.args.copy
        /\ last'.op = "undo_treatments")
       => (last'.outcome = "returned" /\ data' = last.pre_data)]_vars

\* C10: decomposition() with an algorithm that is neither a registered name
\* nor an estimator raises ValueError and leaves the buffer, the folding
\* state and learning_results as they were, whatever the other arguments.
C10_AsStated ==
    (last.op = "decomposition" /\ last.args.algorithm = "unknown") =>
        /\ last.outcome # "returned"
        /\ last.error = "ValueError"
        /\ data = last.pre_data
        /\ shape = last.pre_shape
        /\ ~folding.unfolded
        /\ learning_results = last.pre_results

\* ------------------------------------------------- claims on clustering

ClusterAnalysisReturned ==
    last.op = "cluster_analysis" /\ last.outcome = "returned"

\* C11: after estimate_number_of_clusters() has returned, whatever the
\* metric and the algorithm, a cluster_analysis() call without n_clusters
\* whose kernels do not fail returns, leaves the estimated count in
\* learning_results.number_of_clusters and stores the result of a clustering
\* run.
C11_AsStated ==
    [][(/\ last.op = "estimate_number_of_clusters"
        /\ last.outcome = "returned"
        /\ last'.op = "cluster_analysis"
        /\ last'.args.n_clusters = 0
        /\ last'.cause # "KernelError")
       => (/\ last'.outcome = "returned"
           /\ learning_results'.number_of_clusters
                  = learning_results.number_of_clusters
           /\ learning_results'.cluster_membership # None)]_vars

\* The labels the kernel returned in the last call, the labels stored and
\* the samples (positions in the labels) of a stored label.
RawLabels == last.args.labels

StoredLabels == learning_results.cluster_membership[1]

Members(i) == {j \in 1..Len(StoredLabels) : StoredLabels[j] = i}

StoredClusters == 0..Amax(RawLabels)

\* C12: the labels stored by a cluster_analysis() that returned are the
\* kernel's labels renamed by descending population: label i has at least
\* as many samples as label i + 1, and two samples have the same stored
\* label exactly when they had the same label from the kernel.
C12_RelabelledByDescendingPopulation ==
    ClusterAnalysisReturned =>
        /\ Len(StoredLabels) = Len(RawLabels)
        /\ \A i \in StoredClusters :
              (i + 1) \in StoredClusters =>
                  Cardinality(Members(i)) >= Cardinality(Members(i + 1))
        /\ \A j, k \in 1..Len(RawLabels) :
              (StoredLabels[j] = StoredLabels[k]) <=> (RawLabels[j] = RawLabels[k])

\* Three clusters of different sizes, the kernel's label 0 being the
\* smallest and its label 1 the largest.
C12_Witness ==
    /\ ClusterAnalysisReturned
    /\ ClusterSizes(RawLabels, 3) = <<1, 3, 2>>
    /\ StoredLabels # RawLabels

\* The samples a navigation mask excluded from the last call, among all the
\* samples of the dataset.
KeptSamples ==
    ClusterSelector(last.args, last.pre_shape, Len(last.pre_data)).keep

\* C13: in the presence matrix stored by a cluster_analysis() that
\* returned, which has a row per cluster and a column per sample of the
\* dataset, a sample excluded by the navigation mask is NaN in every row,
\* and a sample that was clustered is 1 in the row of its stored label and
\* 0 in every other row.
C13_PresenceMatrix ==
    ClusterAnalysisReturned =>
        LET matrix == learning_results.cluster_labels[1]
        IN  /\ Len(matrix) = Cardinality(StoredClusters)
            /\ \A i \in StoredClusters :
                  /\ Len(matrix[i + 1]) = Len(last.pre_data)
                  /\ \A s \in 1..Len(last.pre_data) :
                        matrix[i + 1][s] =
                            IF ~KeptSamples[s] THEN "nan"
                            ELSE IF StoredLabels[Rank(KeptSamples, s)] = i
                            THEN "1" ELSE "0"

\* A call with a navigation mask, on the 2x3 map, that returned.
C13_Witness ==
    /\ ClusterAnalysisReturned
    /\ last.args.navigation_mask # None
    /\ Len(last.pre_shape) = 3
    /\ \E s \in 1..Len(last.pre_data) :
          /\ ~KeptSamples[s]
          /\ learning_results.cluster_labels[1][1][s] = "nan"

\* C14: without a navigation mask and with centers taken from the data,
\* row i of the centers stored by a cluster_analysis() that returned is the
\* mean of the data rows of the samples whose stored label is i: their sum
\* divided by their number.
C14_AsStated ==
    (/\ ClusterAnalysisReturned
     /\ last.args.navigation_mask = None
     /\ ~last.args.use_decomposition_for_centers) =>
        \A i \in StoredClusters :
            /\ learning_results.cluster_centers[1][i + 1].rows = Members(i)
            /\ learning_results.cluster_centers[1][i + 1].size
                   = Cardinality(Members(i))

EstimateReturned ==
    last.op = "estimate_number_of_clusters" /\ last.outcome = "returned"

\* The positions i of a sweep of n counts at which
\* gap(k_i) >= gap(k_i+1) - stderr(k_i+1), k_i being the i-th count.
GapRule ==
    {i \in 1..(Len(last.args.scores) - 1) :
        last.args.scores[i] >= last.args.scores[i + 1] - last.args.std_error[i + 1]}

\* C15: after an estimate with the gap metric that returned, if some count
\* k of the sweep has gap(k) >= gap(k+1) - stderr(k+1), the smallest such
\* count is stored as number_of_clusters.
C15_AsStated ==
    (EstimateReturned /\ last.args.metric = "gap" /\ GapRule # {}) =>
        learning_results.number_of_clusters
            = Some(Number(k_range(last.args)[Ascending(GapRule)[1]]))

\* The positions of a silhouette sweep whose score is greater than the
\* scores of both neighbouring counts.
LocalMaxima ==
    {i \in 2..(Len(last.args.scores) - 1) :
        /\ last.args.scores[i] > last.args.scores[i - 1]
        /\ last.args.scores[i] > last.args.scores[i + 1]}

\* C16: after an estimate with the silhouette metric that returned, the
\* list stored as number_of_clusters holds the counts whose score is a
\* local maximum, and the first count of the sweep if its score is greater
\* than that of every local maximum, and no other count.
C16_AsStated ==
    (EstimateReturned /\ last.args.metric = "silhouette") =>
        LET stored == learning_results.number_of_clusters[1].list
            sweep == SilhouetteRange(last.args)
        IN  {stored[j] : j \in 1..Len(stored)} =
                {sweep[i] : i \in LocalMaxima} \cup
                (IF \A i \in LocalMaxima :
                        last.args.scores[1] > last.args.scores[i]
                 THEN {sweep[1]} ELSE {})

\* ---------------------------------- claims on blind source separation

\* The last call was a blind_source_separation that got to the storing of
\* the unmixing matrix; it returned.
BssStored ==
    /\ last.op = "blind_source_separation"
    /\ BssEarlyError(last.pre_results, last.args) = "none"

BssReturned == last.op = "blind_source_separation" /\ last.outcome = "returned"

NumberOfComponents == Len(last.args.w)

\* m with the columns, or the rows, of the components of S negated.
NegateColumns(m, S) ==
    [r \in 1..Len(m) |-> [c \in 1..Len(m[r]) |-> IF (c - 1) \in S THEN -m[r][c] ELSE m[r][c]]]

NegateRows(m, S) ==
    [r \in 1..Len(m) |-> [c \in 1..Len(m[r]) |-> IF (r - 1) \in S THEN -m[r][c] ELSE m[r][c]]]

\* m[:, l], l being a list of Python indices.
Columns(m, l) == [r \in 1..Len(m) |-> [c \in 1..Len(l) |-> m[r][l[c] + 1]]]

\* The product of the integer matrix a and the matrix of fractions b.
TimesFraction(a, b) == Fraction(MatMul(a, b.num), b.den)

\* C17: when the unmixing matrix that blind_source_separation stores is
\* singular, _unmix_components does not raise: the warning is given, and
\* bss_factors and bss_loadings are stored with the rows of factors and
\* loadings and n columns, n being the number of rows of the unmixing
\* matrix, the one that takes the inverse being the product with the
\* pseudo-inverse of the stored matrix.
C17_SingularUnmixingMatrix ==
    (BssStored /\ Det(last.args.w) = 0) =>
        LET lr == learning_results
            n == Len(lr.unmixing_matrix[1])
            inverted == IF last.args.on_loadings THEN lr.bss_factors[1]
                        ELSE lr.bss_loadings[1]
            source == IF last.args.on_loadings THEN lr.factors[1]
                      ELSE lr.loadings[1]
        IN  /\ last.error # "LinAlgError"
            /\ last.warned
            /\ Len(lr.bss_factors[1].num) = Len(lr.factors[1])
            /\ Len(lr.bss_loadings[1].num) = Len(lr.loadings[1])
            /\ NumberOfColumns(lr.bss_factors[1].num) = n
            /\ NumberOfColumns(lr.bss_loadings[1].num) = n
            /\ inverted = TimesFraction(FirstColumns(source, n),
                                        linalg_pinv(lr.unmixing_matrix[1]))

\* A separation in two components that returned with a singular unmixing
\* matrix other than the zero matrix.
C17_Witness ==
    /\ BssReturned
    /\ NumberOfComponents = 2
    /\ Det(last.args.w) = 0
    /\ SumOfSquares(last.args.w) > 0
    /\ last.warned

\* C18: after blind_source_separation(comp_list=L) has returned,
\* bss_factors and bss_loadings are the products of columns L of factors
\* and loadings with the transpose and the (pseudo-)inverse of the stored
\* unmixing matrix.
C18_AsStated ==
    (BssReturned /\ last.args.number_of_components = 0
     /\ last.args.comp_list # None) =>
        LET lr == learning_results
            w == lr.unmixing_matrix[1]
            f == Columns(lr.factors[1], last.args.comp_list[1])
            l == Columns(lr.loadings[1], last.args.comp_list[1])
            w_inv == InverseOrPseudoInverse(w).value
        IN  IF last.args.on_loadings
            THEN /\ lr.bss_loadings[1] = Fraction(MatMul(l, Transpose(w)), 1)
                 /\ lr.bss_factors[1] = TimesFraction(f, w_inv)
            ELSE /\ lr.bss_factors[1] = Fraction(MatMul(f, Transpose(w)), 1)
                 /\ lr.bss_loadings[1] = TimesFraction(l, w_inv)

\* The unmixing matrix, bss_factors and bss_loadings before any sign flip:
\* the products of the first columns of factors and loadings with the
\* sorted matrix of the kernel.
Unflipped ==
    LET w == Sorted(last.pre_results, last.args.w, last.args.order)
        w_inv == IF Det(w) = 0 THEN linalg_pinv(w) ELSE linalg_inv(w).value
        f == FirstColumns(last.pre_results.factors[1], Len(w))
        l == FirstColumns(last.pre_results.loadings[1], Len(w))
    IN  [unmixing_matrix |-> w,
         bss_factors |-> IF last.args.on_loadings THEN TimesFraction(f, w_inv)
                         ELSE Fraction(MatMul(f, Transpose(w)), 1),
         bss_loadings |-> IF last.args.on_loadings
                          THEN Fraction(MatMul(l, Transpose(w)), 1)
                          ELSE TimesFraction(l, w_inv)]

\* The stored results are the unflipped ones with the components of S
\* flipped in the three matrices.
FlippedTogether(S) ==
    /\ learning_results.unmixing_matrix[1]
           = NegateRows(Unflipped.unmixing_matrix, S)
    /\ learning_results.bss_factors[1]
           = Fraction(NegateColumns(Unflipped.bss_factors.num, S),
                      Unflipped.bss_factors.den)
    /\ learning_results.bss_loadings[1]
           = Fraction(NegateColumns(Unflipped.bss_loadings.num, S),
                      Unflipped.bss_loadings.den)

ScoreOfRow(j) ==
    LET selected == SelectComponents(last.pre_results, last.args).comp_list
        ev == last.pre_results.explained_variance[1]
        w == last.args.w
    IN  Sum([k \in 1..Len(w[j]) |-> ev[selected[k] + 1] * Abs(w[j][k])],
            1..Len(w[j]))

\* The rows of the kernel's matrix by descending score, rows of equal score
\* in their original order.
StableDescending ==
    CHOOSE p \in [1..NumberOfComponents -> 1..NumberOfComponents] :
        \A i, j \in 1..NumberOfComponents :
            i < j => \/ ScoreOfRow(p[i]) > ScoreOfRow(p[j])
                     \/ ScoreOfRow(p[i]) = ScoreOfRow(p[j]) /\ p[i] < p[j]

\* C20: after a blind_source_separation that returned on a record with
\* explained variance, row i of the stored unmixing matrix is, up to its
\* sign, the i-th row of the kernel's matrix in the order of descending
\* score, rows of equal score keeping their original order.
C20_AsStated ==
    (BssReturned /\ last.pre_results.explained_variance # None) =>
        \A i \in 1..NumberOfComponents :
            \/ learning_results.unmixing_matrix[1][i]
                   = last.args.w[StableDescending[i]]
            \/ learning_results.unmixing_matrix[1][i]
                   = [k \in 1..NumberOfComponents |->
                          -last.args.w[StableDescending[i]][k]]


\* ------------------------------------------------ claims on the elbow

\* The call of estimate_elbow_position on a curve that has just ended.
ElbowCalled ==
    /\ last.op = "estimate_elbow_position"
    /\ last.args.curve # None

\* The number of points the elbow is sought among.
ElbowPoints ==
    Min(last.args.max_points, Len(last.args.curve[1]) - 1)

\* A value of the curve in the space the call asks for, in millionths.
InSpace(v) == IF last.args.log THEN Ln(v) ELSE 1000000 * v

\* The perpendicular distance of the point of index i to the line through
\* the first point and the m-th point, both in that space, times the
\* length of the line between them.
DistanceToLine(i) ==
    LET c == last.args.curve[1]
        m == ElbowPoints
        d == m * (InSpace(c[1]) - InSpace(c[i + 1]))
             + i * (InSpace(c[m + 1]) - InSpace(c[1]))
    IN IF d < 0 THEN 0 - d ELSE d

\* C21: estimate_elbow_position returns the zero-based index, among the
\* first m = min(max_points, len(curve) - 1) points, whose perpendicular
\* distance to the line through the first point and the m-th point is
\* the largest, points and end points being taken in the same space
\* (logarithms when log=True, values when log=False).
C21_AsStated ==
    (ElbowCalled /\ ElbowPoints >= 1)
        => /\ last.outcome = "returned"
           /\ last.result \in 0..(ElbowPoints - 1)
           /\ \A j \in 0..(ElbowPoints - 1) :
                  DistanceToLine(j) <= DistanceToLine(last.result)

\* C28: estimate_elbow_position returns an index of the curve, without
\* raising, for every curve that is not empty, a curve of one value
\* included.
C28_AsStated ==
    ElbowCalled
        => /\ last.outcome = "returned"
           /\ last.result \in 0..(Len(last.args.curve[1]) - 1)


\* ------------------------------------------- claims on the loaded results

\* The old names load knows, and those that are moved to a field.
OldNames == {LegacyNames[i][1] : i \in 1..Len(LegacyNames)}

Renamed == {i \in 1..Len(LegacyNames) : LegacyNames[i][2] # ""}

\* The value load reads from the file under a name.
ValueInFile(name) ==
    LET value == last.args.archive[name]
    IN IF value.dtype = "object" THEN None
       ELSE IF value.ndim = 0 THEN Some([item |-> value.item])
       ELSE Some(value)

\* C22: after load() no old name (algorithm, pca_algorithm, V, w, v,
\* scores, pc, ica_scores, ica_factors, ica_algorithm, variance2one,
\* centered) is left on the record, and the value the file holds under
\* each renamed old name is found in the field the name is moved to.
C22_AsStated ==
    last.op = "load"
        => /\ DOMAIN learning_results \cap OldNames = {}
           /\ \A i \in Renamed :
                  LegacyNames[i][1] \in DOMAIN last.args.archive
                      => learning_results[LegacyNames[i][2]]
                             = ValueInFile(LegacyNames[i][1])

\* ------------------------------------- claims on what a later call leaves

\* C24: after a decomposition() that returned, unmixing_matrix and
\* bss_algorithm are None, and navigation_mask (resp. signal_mask) is None
\* when the call was made without that mask, whatever an earlier call had
\* stored.
C24_AsStated ==
    (last.op = "decomposition" /\ last.outcome = "returned")
        => /\ learning_results.unmixing_matrix = None
           /\ learning_results.bss_algorithm = None
           /\ last.args.navigation_mask = None
                  => learning_results.navigation_mask = None
           /\ last.args.signal_mask = None
                  => learning_results.signal_mask = None

\* C23: when blind_source_separation() raises, whatever the reason, the
\* fields unmixing_matrix, bss_factors, bss_loadings, bss_algorithm and
\* on_loadings of learning_results have the values they had before the
\* call.
C23_AsStated ==
    (last.op = "blind_source_separation" /\ last.outcome = "raised")
        => \A f \in {"unmixing_matrix", "bss_factors", "bss_loadings",
                      "bss_algorithm", "on_loadings"} :
              learning_results[f] = last.pre_results[f]

\* ------------------------------------- claims on the gap statistic's draw

\* C25: in the gap statistic of estimate_number_of_clusters(), a value of
\* the random reference data drawn for a feature lies between the minimum
\* and the maximum of that feature of the scaled data, whatever the
\* scaling.
C25_AsStated ==
    (/\ last.op = "estimate_number_of_clusters"
     /\ last.outcome = "returned"
     /\ last.args.metric = "gap")
        => LET range == FeatureRange(last.args.scaling)
               value == gap_reference(range[1], range[2],
                                      last.args.random_sample)
           IN /\ range[1] * value.den <= value.num
              /\ value.num <= range[2] * value.den

\* ------------------------------------------ claims on the normalization

\* The call that has just ended is a decomposition() that normalized the
\* Poisson noise, returned and restored nothing: the buffer is as
\* normalize_poissonian_noise() left it.
NormalizationLeft ==
    /\ last.op = "decomposition"
    /\ last.outcome = "returned"
    /\ last.args.normalize_poissonian_noise
    /\ last.args.algorithm = "svd"
    /\ ~last.args.copy

\* Whether position i (resp. channel j) is excluded by the mask of the call.
ExcludedPosition(i) ==
    /\ last.args.navigation_mask # None
    /\ Ravel(last.args.navigation_mask[1],
             NavigationShapeOf(last.pre_shape))[i]

ExcludedChannel(j) ==
    /\ last.args.signal_mask # None
    /\ Ravel(last.args.signal_mask[1], SignalShapeOf(last.pre_shape))[j]

\* The values of before the call that are summed in aG[i] (resp. bH[j]).
SummedForPosition(i) ==
    LET js == Ascending({j \in 1..Len(last.pre_data[i]) : ~ExcludedChannel(j)})
    IN [k \in 1..Len(js) |-> last.pre_data[i][js[k]]]

SummedForChannel(j) ==
    LET is == Ascending({i \in 1..Len(last.pre_data) : ~ExcludedPosition(i)})
    IN [k \in 1..Len(is) |-> last.pre_data[is[k]][j]]

\* C26: normalize_poissonian_noise() divides every selected entry
\* data[i, j] of the buffer by sqrt(aG[i]) * sqrt(bH[j]), storing 0 for
\* 0/0, and leaves every excluded entry as it was, whether no mask, a
\* navigation mask, a signal mask or both are given.
C26_AsStated ==
    NormalizationLeft
        => \A i \in 1..Len(data) : \A j \in 1..Len(data[i]) :
              data[i][j] =
                  IF ExcludedPosition(i) \/ ExcludedChannel(j)
                  THEN last.pre_data[i][j]
                  ELSE IF IsZero(last.pre_data[i][j]) THEN <<0>>
                  ELSE <<last.pre_data[i][j], SummedForPosition(i),
                         SummedForChannel(j)>>

\* ------------------------------------- claims on the centers under a mask

\* The positions in the dataset of the samples the kernel gave label r:
\* label j belongs to the j-th sample that the mask does not exclude.
OriginalPositions(r) ==
    {s \in 1..Len(last.pre_data) :
        /\ KeptSamples[s]
        /\ RawLabels[Rank(KeptSamples, s)] = r}

\* C27: when cluster_analysis() is run with a navigation_mask, every
\* stored center is computed from the rows at the original positions of
\* the samples of one cluster, label j being that of the j-th sample that
\* is not excluded, and from no excluded sample.
C27_AsStated ==
    (ClusterAnalysisReturned /\ last.args.navigation_mask # None)
        => \A i \in StoredClusters :
              LET rows == learning_results.cluster_centers[1][i + 1].rows
              IN /\ \A s \in rows : KeptSamples[s]
                 /\ \E r \in StoredClusters : rows = OriginalPositions(r)

\* ------------------------------------------- claims on the caller's mask

\* C29: blind_source_separation() does not modify the mask object passed
\* by the caller: after the call, whether it returned or raised and for
\* any diff_order, the mask has the values and the boolean dtype it had
\* before the call.
C29_AsStated ==
    (last.op = "blind_source_separation" /\ last.args.mask # None)
        => /\ bss_mask = last.args.mask
           /\ bss_mask[1].dtype = "bool"

\* ---------------------------------------------- claims on the two models

\* C30: get_bss_model() and get_decomposition_model() leave factors,
\* loadings, bss_factors and bss_loadings of learning_results as they
\* were, on a lazy signal as on one that is not.
C30_AsStated ==
    last.op \in {"get_bss_model", "get_decomposition_model"}
        => /\ learning_results.bss_factors = last.pre_results.bss_factors
           /\ learning_results.bss_loadings = last.pre_results.bss_loadings
           /\ learning_results.factors = last.pre_results.factors
           /\ learning_results.loadings = last.pre_results.loadings

====
